---------------------------- MODULE Spec2Model ----------------------------
(***************************************************************************)
(* Funding-rate monitor: pair matcher (ArbitrageDetector), differential    *)
(* evaluation and check cycle (FRMonitorV2), statistics aggregator         *)
(* (StatisticsCollector).                                                  *)
(*                                                                         *)
(* Numbers.  Position sizes are integers in one fixed unit of size.  Raw   *)
(* funding rates are integers in one fixed unit; the percentage the code   *)
(* computes (raw * 100) is an integer in the same unit.  Arithmetic is     *)
(* exact: binary floating-point rounding is not modelled.                  *)
(*                                                                         *)
(* Python dicts whose iteration order or key uniqueness matters            *)
(* (the position maps, arbitrage_pairs, alert_pairs) are sequences of      *)
(* records in insertion order, each carrying its key in field "symbol".    *)
(***************************************************************************)
EXTENDS Integers, Sequences, FiniteSets, TLC

VARIABLES
    binance_positions,    \* list returned for Binance by get_all_positions
    bybit_positions,      \* list returned for Bybit by get_all_positions
    arbitrage_pairs,      \* dict symbol -> pair, in insertion order
    binance_rates,        \* what get_multiple_funding_rates of Binance gave the gather
    bybit_rates,          \* what get_multiple_funding_rates of Bybit gave the gather
    rate_request,         \* the symbols handed to get_funding_rates in this cycle (none: <<>>)
    funding_data,         \* dict symbol -> exchange -> rate entry
    funding_rate_threshold, \* config.funding_rate_threshold
    alert_pairs,          \* dict symbol -> pair, the pairs that triggered (V2)
    report,               \* the pair sections of the V1 monitoring report
    pc,                   \* position of the check cycle / of the matcher run
    position_errors,      \* per exchange: the position fetch of the cycle raised
    success,              \* the local success of check_and_send_alert
    alert_report,         \* the pair sections of the V2 alert report
    alert_delivered,      \* what the notifier returned for the last alert report
    spc,                  \* position of send_summary_report
    summary_report,       \* the figures of the summary report text
    summary_delivered,    \* what the notifier returned for the last summary report
    statistics_collector, \* the StatisticsCollector object
    rounds,               \* check-and-alert rounds a caller of the aggregator has completed
    last_call,            \* the aggregator method called last, with a bit that flips at every call
    version,              \* the program run: "v1" (FR_monitor_v1.py) or "v2" (FR_monitor_v2.py)
    argv,                 \* the command-line flags of the run
    environ,              \* os.environ after load_dotenv: variable name -> value
    config,               \* the Config object: attribute name -> value (none: << >>)
    main_pc,              \* position of main()
    _shutdown_event,      \* the asyncio.Event the signal handler sets
    monitor_pc,           \* position of the check loop (V1 loop, V2 _monitoring_loop)
    monitor_timeout,      \* timeout in seconds of the wait_for the check loop is in (none: 0)
    summary_pc,           \* position of the V2 _summary_loop
    summary_timeout,      \* timeout in seconds of the wait_for the summary loop is in (none: 0)
    cycle_result,         \* how the last check cycle of the loop went
    notifier_result,      \* the last call of the notifier and what it gave its caller
    sessions,             \* the clients that hold an open HTTP session
    closed                \* the clients whose close() has been called and has returned

vars == <<binance_positions, bybit_positions, arbitrage_pairs,
          binance_rates, bybit_rates, rate_request, funding_data, funding_rate_threshold,
          alert_pairs, report, pc, position_errors, success, alert_report,
          alert_delivered, spc, summary_report, summary_delivered,
          statistics_collector, rounds, last_call,
          version, argv, environ, config, main_pc, _shutdown_event, monitor_pc,
          monitor_timeout, summary_pc, summary_timeout, cycle_result, notifier_result,
          sessions, closed>>

lifeVars == <<version, argv, environ, config, main_pc, _shutdown_event, monitor_pc,
              monitor_timeout, summary_pc, summary_timeout, cycle_result, notifier_result,
              sessions, closed>>

matcherVars == <<binance_positions, bybit_positions, arbitrage_pairs>>
rateVars == <<binance_rates, bybit_rates, rate_request, funding_data,
              funding_rate_threshold, alert_pairs, report>>
cycleVars == <<position_errors, success, alert_report, alert_delivered>>
summaryVars == <<spc, summary_report, summary_delivered>>
statsVars == <<statistics_collector, last_call>>

----------------------------------------------------------------------------
(* Bounds and input domains *)

\* Total number of positions the two exchanges report in one matcher run.
MaxPositions == 3

Symbols == {"BTCUSDT", "ETHUSDT"}

\* 39 vs 41 is exactly 5% of the average 40; 41 vs 43 is below; 39 vs 43 above.
Sizes == {39, 41, 43}

\* Sides as the exchange clients deliver them.
BinanceSides == {"LONG", "SHORT"}
BybitSides == {"Buy", "Sell"}

Position(sym, side, size) == [symbol |-> sym, side |-> side, size |-> size]

BinancePositionSet == {Position(s, d, z) : s \in Symbols, d \in BinanceSides, z \in Sizes}
BybitPositionSet == {Position(s, d, z) : s \in Symbols, d \in BybitSides, z \in Sizes}

----------------------------------------------------------------------------
(* Strings *)

\* str.upper() on the side strings that occur.
Upper(s) ==
    CASE s = "Buy" -> "BUY"
      [] s = "Sell" -> "SELL"
      [] s = "buy" -> "BUY"
      [] s = "sell" -> "SELL"
      [] OTHER -> s

\* str.lower() on the exchange names that occur.
Lower(s) ==
    CASE s = "Binance" -> "binance"
      [] s = "Bybit" -> "bybit"
      [] OTHER -> s

Abs(x) == IF x < 0 THEN -x ELSE x

----------------------------------------------------------------------------
(* Python dict, as a sequence of records keyed by field "symbol" *)

DictHas(d, k) == \E i \in DOMAIN d : d[i].symbol = k

DictGet(d, k) == d[CHOOSE i \in DOMAIN d : d[i].symbol = k]

\* every symbol the monitor knows, in place of the keys of d
DictKeys_AllSymbols(d) == <<"BTCUSDT", "ETHUSDT">>

DictKeys(d) == [i \in DOMAIN d |-> d[i].symbol]

\* d[k] = v kept without looking for an existing key
DictSetAppendOnly(d, k, v) == Append(d, v)

\* d[k] = v leaving the value of an existing key as it is
DictSet_KeepsFirst(d, k, v) == IF DictHas(d, k) THEN d ELSE Append(d, v)

\* d[k] = v : an existing key keeps its place and takes the new value
DictSet(d, k, v) ==
    IF DictHas(d, k)
    THEN [i \in DOMAIN d |-> IF d[i].symbol = k THEN v ELSE d[i]]
    ELSE Append(d, v)

----------------------------------------------------------------------------
(* ArbitrageDetector *)

_normalize_symbol(symbol, exchange) == symbol

\* the Bybit branch returning LONG for both native sides
_normalize_side_BothLong(side, exchange) ==
    IF Lower(exchange) = "binance" THEN Upper(side)
    ELSE IF Lower(exchange) = "bybit" /\ Upper(side) \in {"BUY", "SELL"} THEN "LONG"
    ELSE Upper(side)

_normalize_side(side, exchange) ==
    IF Lower(exchange) = "binance" THEN Upper(side)
    ELSE IF Lower(exchange) = "bybit" /\ Upper(side) = "BUY" THEN "LONG"
    ELSE IF Lower(exchange) = "bybit" /\ Upper(side) = "SELL" THEN "SHORT"
    ELSE Upper(side)

\* The loop that indexes one exchange's positions by symbol.
RECURSIVE BuildPosMap(_, _, _)
BuildPosMap(positions, exchange, acc) ==
    IF positions = <<>> THEN acc
    ELSE LET pos == Head(positions)
             symbol == _normalize_symbol(pos.symbol, exchange)
             side == _normalize_side(pos.side, exchange)
         IN BuildPosMap(Tail(positions), exchange,
                        DictSet(acc, symbol, [symbol |-> symbol, side |-> side, size |-> pos.size]))

SizeTolerancePct == 5

\* size_avg > 0 and size_diff / size_avg > 0.05, with size_avg = (a + b) / 2
SizeMismatch_Inclusive(a, b) ==
    (a + b) > 0 /\ Abs(a - b) * 2 * 100 >= SizeTolerancePct * (a + b)

\* the difference taken relative to the sum of the sizes instead of their average
SizeMismatch_BySum(a, b) ==
    (a + b) > 0 /\ Abs(a - b) * 100 > SizeTolerancePct * (a + b)

SizeMismatch(a, b) ==
    (a + b) > 0 /\ Abs(a - b) * 2 * 100 > SizeTolerancePct * (a + b)

\* the pair built with the sizes taken from the wrong legs
MakePair_SizesSwapped(symbol, binance_pos, bybit_pos) ==
    [symbol |-> symbol,
     long_exchange |-> IF binance_pos.side = "LONG" THEN "binance" ELSE "bybit",
     short_exchange |-> IF binance_pos.side = "LONG" THEN "bybit" ELSE "binance",
     long_size |-> binance_pos.size,
     short_size |-> bybit_pos.size,
     size_difference |-> Abs(binance_pos.size - bybit_pos.size)]

MakePair(symbol, binance_pos, bybit_pos) ==
    IF binance_pos.side = "LONG"
    THEN [symbol |-> symbol, long_exchange |-> "binance", short_exchange |-> "bybit",
          long_size |-> binance_pos.size, short_size |-> bybit_pos.size,
          size_difference |-> Abs(binance_pos.size - bybit_pos.size)]
    ELSE [symbol |-> symbol, long_exchange |-> "bybit", short_exchange |-> "binance",
          long_size |-> bybit_pos.size, short_size |-> binance_pos.size,
          size_difference |-> Abs(binance_pos.size - bybit_pos.size)]

\* The loop over binance_pos_map that emits the pairs.
RECURSIVE MatchLoop(_, _, _, _)
MatchLoop(binance_pos_map, bybit_pos_map, i, acc) ==
    IF i > Len(binance_pos_map) THEN acc
    ELSE LET symbol == binance_pos_map[i].symbol
             binance_pos == binance_pos_map[i]
         IN IF ~DictHas(bybit_pos_map, symbol)
            THEN MatchLoop(binance_pos_map, bybit_pos_map, i + 1, acc)
            ELSE LET bybit_pos == DictGet(bybit_pos_map, symbol)
                 IN IF binance_pos.side = bybit_pos.side
                    THEN MatchLoop(binance_pos_map, bybit_pos_map, i + 1, acc)
                    ELSE IF SizeMismatch(binance_pos.size, bybit_pos.size)
                    THEN MatchLoop(binance_pos_map, bybit_pos_map, i + 1, acc)
                    ELSE MatchLoop(binance_pos_map, bybit_pos_map, i + 1,
                                   DictSet(acc, symbol, MakePair(symbol, binance_pos, bybit_pos)))

_find_arbitrage_pairs(binance_pos_list, bybit_pos_list) ==
    MatchLoop(BuildPosMap(binance_pos_list, "binance", <<>>),
              BuildPosMap(bybit_pos_list, "bybit", <<>>), 1, <<>>)

\* What the gather of get_all_positions receives from one exchange: an
\* exception, or the list of open positions.
FetchResult(exception, positions) == [exception |-> exception, positions |-> positions]

\* the gather without return_exceptions: a failed fetch propagates
get_all_positions_Propagates(binance_result, bybit_result) ==
    [raised |-> binance_result.exception \/ bybit_result.exception,
     binance |-> binance_result.positions,
     bybit |-> bybit_result.positions]

\* raised: an exception leaves get_all_positions (never, as it catches them all)
get_all_positions(binance_result, bybit_result) ==
    [raised |-> FALSE,
     binance |-> IF binance_result.exception THEN <<>> ELSE binance_result.positions,
     bybit |-> IF bybit_result.exception THEN <<>> ELSE bybit_result.positions]

detect_arbitrage_pairs(binance_pos_list, bybit_pos_list) ==
    IF binance_pos_list = <<>> /\ bybit_pos_list = <<>> THEN <<>>
    ELSE _find_arbitrage_pairs(binance_pos_list, bybit_pos_list)

----------------------------------------------------------------------------
(* Exchange clients and FundingRateMonitor *)

Exchanges == {"binance", "bybit"}

\* A dict with no key.
EmptyDict == [k \in {} |-> 0]

\* What the gather of get_funding_rates receives from one exchange: an
\* exception, or the dict of the raw rates of the symbols whose request
\* succeeded; requests keeps the outcome of the request of each symbol asked for.
RatesResult(exception, requests, rates) ==
    [exception |-> exception, requests |-> requests, rates |-> rates]

NoRates == RatesResult(FALSE, <<>>, EmptyDict)

SeqToSet(q) == {q[i] : i \in DOMAIN q}

\* One get_funding_rate request as the gather of get_multiple_funding_rates
\* sees it: an exception, or the raw rate of the reply.
RequestFailed == [ok |-> FALSE, rate |-> 0]
RequestOk(rate) == [ok |-> TRUE, rate |-> rate]

\* the batch given up at its first failed request: only the rates before it are kept
get_multiple_funding_rates_StopsAtFailure(symbols, results) ==
    [symbol \in {symbols[i] : i \in {j \in DOMAIN symbols :
                                        \A k \in 1..j : results[k].ok}} |->
        results[CHOOSE i \in DOMAIN symbols : symbols[i] = symbol].rate]

\* results[i] is the outcome of the request for symbols[i]
get_multiple_funding_rates(symbols, results) ==
    [symbol \in {symbols[i] : i \in {j \in DOMAIN symbols : results[j].ok}} |->
        results[CHOOSE i \in DOMAIN symbols : symbols[i] = symbol].rate]

\* a rate entry with its 'error' key present or not
RateEntry(rate, error) == [rate |-> rate, error |-> error]

\* The entry of one exchange for one symbol built in the loop of get_funding_rates.
ExchangeEntry(rates, symbol) ==
    IF symbol \in DOMAIN rates
    THEN RateEntry(rates[symbol] * 100, FALSE)
    ELSE RateEntry(0, TRUE)

get_funding_rates(symbols, binance_result, bybit_result) ==
    IF symbols = <<>> THEN EmptyDict
    ELSE LET b_rates == IF binance_result.exception THEN EmptyDict ELSE binance_result.rates
             y_rates == IF bybit_result.exception THEN EmptyDict ELSE bybit_result.rates
         IN [symbol \in SeqToSet(symbols) |->
                [e \in Exchanges |-> IF e = "binance" THEN ExchangeEntry(b_rates, symbol)
                                     ELSE ExchangeEntry(y_rates, symbol)]]

----------------------------------------------------------------------------
(* FRMonitorV2._check_for_alerts and FRMonitor._generate_report *)

\* the comparison written strict
Triggered_Strict(rate_diff, threshold) == rate_diff < threshold

\* rate_diff <= self.config.funding_rate_threshold
Triggered(rate_diff, threshold) == rate_diff <= threshold

\* every matched pair placed in the alert set
_check_for_alerts_EveryPair(pairs, funding, threshold) == pairs

RECURSIVE _check_for_alerts(_, _, _)
_check_for_alerts(pairs, funding, threshold) ==
    IF pairs = <<>> THEN <<>>
    ELSE LET pair_info == Head(pairs)
             symbol == pair_info.symbol
             rest == _check_for_alerts(Tail(pairs), funding, threshold)
         IN IF symbol \notin DOMAIN funding THEN rest
            ELSE LET funding_info == funding[symbol]
                     long_exchange == pair_info.long_exchange
                     short_exchange == pair_info.short_exchange
                 IN IF long_exchange \notin DOMAIN funding_info
                       \/ short_exchange \notin DOMAIN funding_info
                    THEN rest
                    ELSE LET long_rate == funding_info[long_exchange].rate
                             short_rate == funding_info[short_exchange].rate
                             rate_diff == short_rate - long_rate
                         IN IF Triggered(rate_diff, threshold)
                            THEN <<pair_info>> \o rest
                            ELSE rest

\* V2: one section per pair of alert_pairs.
RECURSIVE _generate_alert_report(_, _)
_generate_alert_report(pairs, funding) ==
    IF pairs = <<>> THEN <<>>
    ELSE LET pair_info == Head(pairs)
             symbol == pair_info.symbol
             rest == _generate_alert_report(Tail(pairs), funding)
         IN IF symbol \notin DOMAIN funding THEN rest
            ELSE LET long_rate == funding[symbol][pair_info.long_exchange].rate
                     short_rate == funding[symbol][pair_info.short_exchange].rate
                 IN <<[symbol |-> symbol, long_rate |-> long_rate, short_rate |-> short_rate,
                       rate_diff |-> short_rate - long_rate]>> \o rest

\* V1: one section per pair, with the threshold warning of the last line.
RECURSIVE _generate_report(_, _, _)
_generate_report(pairs, funding, threshold) ==
    IF pairs = <<>> THEN <<>>
    ELSE LET pair_info == Head(pairs)
             symbol == pair_info.symbol
             rest == _generate_report(Tail(pairs), funding, threshold)
         IN IF symbol \notin DOMAIN funding THEN rest
            ELSE LET long_rate == funding[symbol][pair_info.long_exchange].rate
                     short_rate == funding[symbol][pair_info.short_exchange].rate
                     rate_diff == short_rate - long_rate
                 IN <<[symbol |-> symbol, long_rate |-> long_rate, short_rate |-> short_rate,
                       rate_diff |-> rate_diff,
                       threshold_warning |-> Triggered(rate_diff, threshold)]>> \o rest

----------------------------------------------------------------------------
(* StatisticsCollector *)

\* SymbolStats(symbol=symbol) with the dataclass defaults
SymbolStats(symbol) ==
    [symbol |-> symbol, check_count |-> 0, alert_count |-> 0,
     rate_differences |-> <<>>, current_rate_diff |-> 0]

\* a / b of two ints: a quotient kept as numerator and denominator, or the
\* ZeroDivisionError Python raises.
Divide(a, b) ==
    IF b = 0 THEN [raised |-> TRUE, num |-> 0, den |-> 1]
    ELSE [raised |-> FALSE, num |-> a, den |-> b]

\* q * k
Times(q, k) == [q EXCEPT !.num = @ * k]

\* the float literal 0.0
Zero == [raised |-> FALSE, num |-> 0, den |-> 1]

\* the quotient computed without looking at check_count first
alert_rate_Unguarded(stats) == Times(Divide(stats.alert_count, stats.check_count), 100)

\* SymbolStats.alert_rate
alert_rate(stats) ==
    IF stats.check_count = 0 THEN Zero
    ELSE Times(Divide(stats.alert_count, stats.check_count), 100)

\* StatisticsCollector(): the fields after construction.  A CheckResult keeps
\* its success flag; its other fields are never read by the program.
StatisticsCollector ==
    [check_results |-> <<>>, symbol_stats |-> EmptyDict, no_arbitrage_count |-> 0]

\* symbol_stats[symbol] = stats
PutStats(symbol_stats, symbol, stats) ==
    [s \in (DOMAIN symbol_stats) \cup {symbol} |-> IF s = symbol THEN stats ELSE symbol_stats[s]]

\* the loop body starting every symbol from a new SymbolStats
UpdateOne_NewEntryEachCheck(symbol_stats, pair_info, funding) ==
    LET symbol == pair_info.symbol
    IN IF symbol \notin DOMAIN funding THEN symbol_stats
       ELSE LET counted == [SymbolStats(symbol) EXCEPT !.check_count = @ + 1]
                funding_info == funding[symbol]
                long_exchange == pair_info.long_exchange
                short_exchange == pair_info.short_exchange
            IN IF long_exchange \in DOMAIN funding_info /\ short_exchange \in DOMAIN funding_info
               THEN LET rate_diff == funding_info[short_exchange].rate
                                        - funding_info[long_exchange].rate
                    IN PutStats(symbol_stats, symbol,
                                [counted EXCEPT !.rate_differences = Append(@, rate_diff),
                                                !.current_rate_diff = rate_diff])
               ELSE PutStats(symbol_stats, symbol, counted)

\* the loop body with the difference taken as long_rate - short_rate
UpdateOne_LongMinusShort(symbol_stats, pair_info, funding) ==
    LET symbol == pair_info.symbol
    IN IF symbol \notin DOMAIN funding THEN symbol_stats
       ELSE LET stats == IF symbol \in DOMAIN symbol_stats THEN symbol_stats[symbol]
                         ELSE SymbolStats(symbol)
                counted == [stats EXCEPT !.check_count = @ + 1]
                funding_info == funding[symbol]
                long_exchange == pair_info.long_exchange
                short_exchange == pair_info.short_exchange
            IN IF long_exchange \in DOMAIN funding_info /\ short_exchange \in DOMAIN funding_info
               THEN LET rate_diff == funding_info[long_exchange].rate
                                        - funding_info[short_exchange].rate
                    IN PutStats(symbol_stats, symbol,
                                [counted EXCEPT !.rate_differences = Append(@, rate_diff),
                                                !.current_rate_diff = rate_diff])
               ELSE PutStats(symbol_stats, symbol, counted)

\* One iteration of the loop of _update_symbol_stats.
UpdateOne(symbol_stats, pair_info, funding) ==
    LET symbol == pair_info.symbol
    IN IF symbol \notin DOMAIN funding THEN symbol_stats
       ELSE LET stats == IF symbol \in DOMAIN symbol_stats THEN symbol_stats[symbol]
                         ELSE SymbolStats(symbol)
                counted == [stats EXCEPT !.check_count = @ + 1]
                funding_info == funding[symbol]
                long_exchange == pair_info.long_exchange
                short_exchange == pair_info.short_exchange
            IN IF long_exchange \in DOMAIN funding_info /\ short_exchange \in DOMAIN funding_info
               THEN LET long_rate == funding_info[long_exchange].rate
                        short_rate == funding_info[short_exchange].rate
                        rate_diff == short_rate - long_rate
                    IN PutStats(symbol_stats, symbol,
                                [counted EXCEPT !.rate_differences = Append(@, rate_diff),
                                                !.current_rate_diff = rate_diff])
               ELSE PutStats(symbol_stats, symbol, counted)

\* the loop left after its first pair
_update_symbol_stats_FirstPairOnly(symbol_stats, pairs, funding) ==
    IF pairs = <<>> THEN symbol_stats
    ELSE UpdateOne(symbol_stats, Head(pairs), funding)

RECURSIVE _update_symbol_stats(_, _, _)
_update_symbol_stats(symbol_stats, pairs, funding) ==
    IF pairs = <<>> THEN symbol_stats
    ELSE _update_symbol_stats(UpdateOne(symbol_stats, Head(pairs), funding),
                              Tail(pairs), funding)

\* a check recorded without the per-symbol update
record_check_result_NoSymbolUpdate(self, ok, pairs, funding) ==
    [self EXCEPT !.check_results = Append(@, [success |-> ok])]

\* the per-symbol update made for a failed check as well
record_check_result_UpdatesOnFailure(self, ok, pairs, funding) ==
    [check_results |-> Append(self.check_results, [success |-> ok]),
     no_arbitrage_count |-> IF Len(pairs) = 0 THEN self.no_arbitrage_count + 1
                            ELSE self.no_arbitrage_count,
     symbol_stats |-> _update_symbol_stats(self.symbol_stats, pairs, funding)]

\* a check recorded only when it succeeded
record_check_result_SuccessOnly(self, ok, pairs, funding) ==
    IF ok
    THEN [self EXCEPT !.check_results = Append(@, [success |-> ok])]
    ELSE self

record_check_result(self, ok, pairs, funding) ==
    [check_results |-> Append(self.check_results, [success |-> ok]),
     no_arbitrage_count |-> IF Len(pairs) = 0 THEN self.no_arbitrage_count + 1
                            ELSE self.no_arbitrage_count,
     symbol_stats |-> IF ok /\ pairs # <<>> /\ DOMAIN funding # {}
                      THEN _update_symbol_stats(self.symbol_stats, pairs, funding)
                      ELSE self.symbol_stats]

\* an alert counted only for a symbol that already has statistics
record_alert_ExistingOnly(self, symbol) ==
    IF symbol \in DOMAIN self.symbol_stats
    THEN [self EXCEPT !.symbol_stats[symbol].alert_count = @ + 1]
    ELSE self

record_alert(self, symbol) ==
    LET stats == IF symbol \in DOMAIN self.symbol_stats THEN self.symbol_stats[symbol]
                 ELSE SymbolStats(symbol)
    IN [self EXCEPT !.symbol_stats =
            PutStats(self.symbol_stats, symbol, [stats EXCEPT !.alert_count = @ + 1])]

get_total_checks(self) == Len(self.check_results)

get_successful_checks(self) ==
    Cardinality({i \in DOMAIN self.check_results : self.check_results[i].success})

get_failed_checks(self) ==
    Cardinality({i \in DOMAIN self.check_results : ~self.check_results[i].success})

RECURSIVE SumAlerts(_, _)
SumAlerts(symbol_stats, keys) ==
    IF keys = {} THEN 0
    ELSE LET k == CHOOSE x \in keys : TRUE
         IN symbol_stats[k].alert_count + SumAlerts(symbol_stats, keys \ {k})

\* the number of symbols that have an alert, in place of the sum of their counts
get_total_alerts_SymbolsAlerted(self) ==
    Cardinality({s \in DOMAIN self.symbol_stats : self.symbol_stats[s].alert_count > 0})

get_total_alerts(self) == SumAlerts(self.symbol_stats, DOMAIN self.symbol_stats)

\* the check history cleared and the per-symbol statistics kept
reset_stats_KeepsSymbols(self) ==
    [check_results |-> <<>>, symbol_stats |-> self.symbol_stats, no_arbitrage_count |-> 0]

reset_stats(self) ==
    [check_results |-> <<>>, symbol_stats |-> EmptyDict, no_arbitrage_count |-> 0]

RECURSIVE Sum(_)
Sum(q) == IF q = <<>> THEN 0 ELSE Head(q) + Sum(Tail(q))

\* The figures _generate_summary_report prints; a quotient is kept as
\* numerator and denominator.
_generate_summary_report(self) ==
    [total_checks |-> get_total_checks(self),
     failed_checks |-> get_failed_checks(self),
     total_alerts |-> get_total_alerts(self),
     details |-> [symbol \in DOMAIN self.symbol_stats |->
                    LET st == self.symbol_stats[symbol]
                    IN [current_rate_diff |-> st.current_rate_diff,
                        avg_rate_diff |-> IF st.rate_differences = <<>> THEN <<0, 1>>
                                          ELSE <<Sum(st.rate_differences), Len(st.rate_differences)>>,
                        alert_count |-> st.alert_count,
                        check_count |-> st.check_count,
                        alert_rate |-> alert_rate(st)]]]

\* every alert recorded twice
RECURSIVE RecordAlerts_Twice(_, _)
RecordAlerts_Twice(self, pairs) ==
    IF pairs = <<>> THEN self
    ELSE RecordAlerts_Twice(record_alert(record_alert(self, Head(pairs).symbol),
                                         Head(pairs).symbol),
                            Tail(pairs))

\* for symbol in alert_pairs: record_alert(symbol)
RECURSIVE RecordAlerts(_, _)
RecordAlerts(self, pairs) ==
    IF pairs = <<>> THEN self
    ELSE RecordAlerts(record_alert(self, Head(pairs).symbol), Tail(pairs))

----------------------------------------------------------------------------
(* Aggregator driven through its methods, in any order, with any arguments *)

\* Checks recorded in one reporting window.
MaxChecks == 2

\* Alerts recorded for one symbol in one reporting window.
MaxAlerts == 2

PairInfo(symbol, long_exchange) ==
    [symbol |-> symbol, long_exchange |-> long_exchange,
     short_exchange |-> IF long_exchange = "binance" THEN "bybit" ELSE "binance",
     long_size |-> 41, short_size |-> 41, size_difference |-> 0]

StatsPairInputs ==
    { <<>>,
      <<PairInfo("BTCUSDT", "binance")>>,
      <<PairInfo("BTCUSDT", "bybit")>>,
      <<PairInfo("BTCUSDT", "binance"), PairInfo("ETHUSDT", "bybit")>> }

\* funding_data[symbol]: both exchanges with a rate, or Binance alone.
BothRates(binance_rate, bybit_rate) ==
    [e \in Exchanges |-> RateEntry(IF e = "binance" THEN binance_rate ELSE bybit_rate, FALSE)]

BinanceOnly == [e \in {"binance"} |-> RateEntry(100, FALSE)]

FundingInfoInputs == {BothRates(100, 0), BothRates(0, 100), BinanceOnly}

\* funding_data: empty, for one symbol, for both symbols.
StatsFundingInputs ==
    { EmptyDict,
      [s \in {"BTCUSDT"} |-> BothRates(100, 0)],
      [s \in {"BTCUSDT"} |-> BinanceOnly],
      [s \in {"ETHUSDT"} |-> BothRates(0, 100)],
      [s \in Symbols |-> IF s = "BTCUSDT" THEN BothRates(0, 100) ELSE BothRates(100, 0)] }

\* The method called last and its arguments (those the method does not take are
\* left at a default).
NoCall ==
    [op |-> "none", success |-> TRUE, symbol |-> "", pairs |-> <<>>,
     funding |-> EmptyDict, flip |-> FALSE]

Called(op, ok, symbol, pairs, funding) ==
    [op |-> op, success |-> ok, symbol |-> symbol, pairs |-> pairs,
     funding |-> funding, flip |-> ~last_call.flip]

\* Nothing fetched or evaluated yet; the threshold has its default.
NoRateData ==
    /\ binance_rates = NoRates
    /\ bybit_rates = NoRates
    /\ rate_request = <<>>
    /\ funding_data = EmptyDict
    /\ funding_rate_threshold = 0
    /\ alert_pairs = <<>>
    /\ report = <<>>

NoFetchError == [e \in Exchanges |-> FALSE]

NoSummary == [total_checks |-> 0, failed_checks |-> 0, total_alerts |-> 0, details |-> EmptyDict]

\* A notifier call: which notification, what the transport did, and what the
\* call gave its caller (an exception raised, or the value returned).
NotifierCall(what, outcome, raised, value) ==
    [what |-> what, outcome |-> outcome, raised |-> raised, value |-> value]

NoSend == NotifierCall("none", "none", FALSE, FALSE)

\* No program has been started.
LifeAtRest ==
    /\ version = "v2"
    /\ argv = {}
    /\ environ = EmptyDict
    /\ config = EmptyDict
    /\ main_pc = "none"
    /\ _shutdown_event = FALSE
    /\ monitor_pc = "none"
    /\ monitor_timeout = 0
    /\ summary_pc = "none"
    /\ summary_timeout = 0
    /\ cycle_result = "none"
    /\ notifier_result = NoSend
    /\ sessions = {}
    /\ closed = {}

\* No check cycle and no summary flush has run.
DriverAtRest ==
    /\ position_errors = NoFetchError
    /\ success = FALSE
    /\ alert_report = <<>>
    /\ alert_delivered = FALSE
    /\ spc = "waiting"
    /\ summary_report = NoSummary
    /\ summary_delivered = FALSE
    /\ rounds = 0

InitStats ==
    /\ binance_positions = <<>>
    /\ bybit_positions = <<>>
    /\ arbitrage_pairs = <<>>
    /\ pc = "api"
    /\ NoRateData
    /\ DriverAtRest
    /\ LifeAtRest
    /\ statistics_collector = StatisticsCollector
    /\ last_call = NoCall

CallRecordCheckResult ==
    /\ Len(statistics_collector.check_results) < MaxChecks
    /\ \E ok \in BOOLEAN, pairs \in StatsPairInputs, funding \in StatsFundingInputs :
          /\ statistics_collector' =
                record_check_result(statistics_collector, ok, pairs, funding)
          /\ last_call' = Called("record_check_result", ok, "", pairs, funding)
    /\ UNCHANGED <<matcherVars, rateVars, pc, cycleVars, summaryVars, rounds, lifeVars>>

CallRecordAlert ==
    /\ \E symbol \in Symbols :
          /\ symbol \in DOMAIN statistics_collector.symbol_stats
                => statistics_collector.symbol_stats[symbol].alert_count < MaxAlerts
          /\ statistics_collector' = record_alert(statistics_collector, symbol)
          /\ last_call' = Called("record_alert", TRUE, symbol, <<>>, EmptyDict)
    /\ UNCHANGED <<matcherVars, rateVars, pc, cycleVars, summaryVars, rounds, lifeVars>>

CallResetStats ==
    /\ statistics_collector' = reset_stats(statistics_collector)
    /\ last_call' = Called("reset_stats", TRUE, "", <<>>, EmptyDict)
    /\ UNCHANGED <<matcherVars, rateVars, pc, cycleVars, summaryVars, rounds, lifeVars>>

NextStats == CallRecordCheckResult \/ CallRecordAlert \/ CallResetStats

SpecStats == InitStats /\ [][NextStats]_vars

----------------------------------------------------------------------------
(* Matcher applied to arbitrary position lists *)

InitMatch ==
    /\ \E n \in 0..MaxPositions, k \in 0..MaxPositions :
          /\ k <= n
          /\ binance_positions \in [1..k -> BinancePositionSet]
          /\ bybit_positions \in [1..(n - k) -> BybitPositionSet]
    /\ arbitrage_pairs = <<>>
    /\ pc = "input"
    /\ NoRateData
    /\ DriverAtRest
    /\ LifeAtRest
    /\ statistics_collector = StatisticsCollector
    /\ last_call = NoCall

Match ==
    /\ pc = "input"
    /\ arbitrage_pairs' = _find_arbitrage_pairs(binance_positions, bybit_positions)
    /\ pc' = "matched"
    /\ UNCHANGED <<binance_positions, bybit_positions, rateVars, cycleVars, summaryVars, statsVars, rounds, lifeVars>>

NextMatch == Match

SpecMatch == InitMatch /\ [][NextMatch]_vars


----------------------------------------------------------------------------
(* Rate fetch and evaluation applied to arbitrary pairs, rates and thresholds *)

RawRates == {-1, 0, 1}

Thresholds == {-100, 0, 100}

RequestOutcomes == {RequestFailed} \cup {RequestOk(r) : r \in RawRates}

\* Everything one exchange can hand to the gather for the requested symbols.
RatesResults(symbols, outcomes) ==
    {RatesResult(TRUE, <<>>, EmptyDict)} \cup
    {RatesResult(FALSE, results, get_multiple_funding_rates(symbols, results)) :
        results \in [DOMAIN symbols -> outcomes]}

InitEval ==
    /\ binance_positions = <<>>
    /\ bybit_positions = <<>>
    /\ arbitrage_pairs \in StatsPairInputs \ {<<>>}
    /\ rate_request = DictKeys(arbitrage_pairs)
    /\ binance_rates \in RatesResults(rate_request, RequestOutcomes)
    /\ bybit_rates \in RatesResults(rate_request, RequestOutcomes)
    /\ funding_rate_threshold \in Thresholds
    /\ funding_data = EmptyDict
    /\ alert_pairs = <<>>
    /\ report = <<>>
    /\ pc = "rates"
    /\ DriverAtRest
    /\ LifeAtRest
    /\ statistics_collector = StatisticsCollector
    /\ last_call = NoCall

\* get_funding_rates returns; V2 evaluates the alerts, V1 builds its report.
Evaluate ==
    /\ pc = "rates"
    /\ funding_data' = get_funding_rates(rate_request, binance_rates, bybit_rates)
    /\ alert_pairs' = _check_for_alerts(arbitrage_pairs, funding_data', funding_rate_threshold)
    /\ report' = _generate_report(arbitrage_pairs, funding_data', funding_rate_threshold)
    /\ pc' = "evaluated"
    /\ UNCHANGED <<matcherVars, binance_rates, bybit_rates, rate_request,
                   funding_rate_threshold, cycleVars, summaryVars, statsVars, rounds, lifeVars>>

NextEval == Evaluate

SpecEval == InitEval /\ [][NextEval]_vars

----------------------------------------------------------------------------
(* FRMonitorV2: the check cycle and the summary flush, interleaved at their awaits *)

----------------------------------------------------------------------------
(* TelegramNotifier *)

\* What the HTTP transport does with a sendMessage request: status 200 with
\* ok true, status 200 with ok false, another status, or an exception.
TransportOutcomes == {"ok", "api_error", "http_error", "exception"}

\* What a notifier call gives its caller.
SendResult(raised, value) == [raised |-> raised, value |-> value]

\* the transport's exception let through to the caller
send_message_Propagates(outcome) ==
    IF outcome = "exception" THEN SendResult(TRUE, FALSE)
    ELSE SendResult(FALSE, outcome = "ok")

send_message(outcome) ==
    CASE outcome = "ok" -> SendResult(FALSE, TRUE)
      [] outcome = "api_error" -> SendResult(FALSE, FALSE)
      [] outcome = "http_error" -> SendResult(FALSE, FALSE)
      [] outcome = "exception" -> SendResult(FALSE, FALSE)

\* a message that was not delivered reported by an exception
send_formatted_message_RaisesUndelivered(outcome) ==
    IF outcome = "ok" THEN SendResult(FALSE, TRUE) ELSE SendResult(TRUE, FALSE)

send_formatted_message(outcome) == send_message(outcome)

send_error_notification(outcome) == send_message(outcome)

send_startup_notification(outcome) == send_message(outcome)

send_shutdown_notification(outcome) == send_message(outcome)

BinanceFeed ==
    { <<>>,
      <<Position("BTCUSDT", "LONG", 41)>>,
      <<Position("BTCUSDT", "LONG", 41), Position("ETHUSDT", "SHORT", 41)>> }

BybitFeed ==
    { <<>>,
      <<Position("BTCUSDT", "Sell", 41)>>,
      <<Position("BTCUSDT", "Sell", 41), Position("ETHUSDT", "Buy", 43)>> }

FetchResults(feed) == {FetchResult(TRUE, <<>>)} \cup {FetchResult(FALSE, l) : l \in feed}

CycleOutcomes == {RequestFailed, RequestOk(1)}

Init ==
    /\ binance_positions = <<>>
    /\ bybit_positions = <<>>
    /\ arbitrage_pairs = <<>>
    /\ NoRateData
    /\ pc = "idle"
    /\ DriverAtRest
    /\ LifeAtRest
    /\ statistics_collector = StatisticsCollector
    /\ last_call = NoCall

\* check_and_send_alert is entered: its locals are set and the positions requested.
CheckStart ==
    /\ pc = "idle"
    /\ Len(statistics_collector.check_results) < MaxChecks
    /\ pc' = "detect"
    /\ binance_positions' = <<>>
    /\ bybit_positions' = <<>>
    /\ arbitrage_pairs' = <<>>
    /\ binance_rates' = NoRates
    /\ bybit_rates' = NoRates
    /\ rate_request' = <<>>
    /\ funding_data' = EmptyDict
    /\ alert_pairs' = <<>>
    /\ alert_report' = <<>>
    /\ position_errors' = NoFetchError
    /\ success' = FALSE
    /\ UNCHANGED <<funding_rate_threshold, report, alert_delivered, summaryVars, statsVars, rounds, lifeVars>>

\* detect_arbitrage_pairs returns (or raises); without a pair the cycle returns
\* at once and its finally clause records the check.
PositionsFetched ==
    /\ pc = "detect"
    /\ \E binance_result \in FetchResults(BinanceFeed), bybit_result \in FetchResults(BybitFeed) :
          LET got == get_all_positions(binance_result, bybit_result)
              pairs == detect_arbitrage_pairs(got.binance, got.bybit)
          IN /\ position_errors' = [e \in Exchanges |-> IF e = "binance" THEN binance_result.exception
                                                        ELSE bybit_result.exception]
             /\ IF got.raised
                THEN /\ pc' = "error_send"
                     /\ UNCHANGED <<matcherVars, rate_request, success, statistics_collector>>
                ELSE /\ binance_positions' = got.binance
                     /\ bybit_positions' = got.bybit
                     /\ arbitrage_pairs' = pairs
                     /\ IF pairs = <<>>
                        THEN /\ success' = TRUE
                             /\ statistics_collector' =
                                   record_check_result(statistics_collector, TRUE, pairs, funding_data)
                             /\ pc' = "idle"
                             /\ UNCHANGED rate_request
                        ELSE /\ rate_request' = DictKeys(pairs)
                             /\ pc' = "rates"
                             /\ UNCHANGED <<success, statistics_collector>>
    /\ UNCHANGED <<binance_rates, bybit_rates, funding_data, funding_rate_threshold,
                   alert_pairs, report, alert_report, alert_delivered, summaryVars,
                   last_call, rounds, lifeVars>>

\* get_funding_rates returns; the alerts are evaluated; without an alert the
\* cycle ends and its finally clause records the check.
RatesFetched ==
    /\ pc = "rates"
    /\ \E b \in RatesResults(rate_request, CycleOutcomes),
          y \in RatesResults(rate_request, CycleOutcomes) :
          LET funding == get_funding_rates(rate_request, b, y)
              alerts == _check_for_alerts(arbitrage_pairs, funding, funding_rate_threshold)
          IN /\ binance_rates' = b
             /\ bybit_rates' = y
             /\ funding_data' = funding
             /\ alert_pairs' = alerts
             /\ IF alerts # <<>>
                THEN /\ alert_report' = _generate_alert_report(alerts, funding)
                     /\ pc' = "alert_send"
                     /\ UNCHANGED <<success, statistics_collector>>
                ELSE /\ success' = TRUE
                     /\ statistics_collector' =
                           record_check_result(statistics_collector, TRUE, arbitrage_pairs, funding)
                     /\ pc' = "idle"
                     /\ UNCHANGED alert_report
    /\ UNCHANGED <<matcherVars, rate_request, funding_rate_threshold, report, position_errors,
                   alert_delivered, summaryVars, last_call, rounds, lifeVars>>

\* The notifier returns to the check cycle: after the alert report the alerts
\* and the check are recorded; after the error notice of the except clause the
\* failed check is recorded.
CycleNotifierReturns ==
    /\ pc \in {"alert_send", "error_send"}
    /\ \E sent \in {send_formatted_message(outcome) : outcome \in TransportOutcomes} :
          IF pc = "alert_send"
          THEN IF sent.raised
               THEN \* the except clause takes over
                    /\ pc' = "error_send"
                    /\ UNCHANGED <<alert_delivered, success, statistics_collector>>
               ELSE /\ alert_delivered' = sent.value
                    /\ success' = TRUE
                    /\ statistics_collector' =
                          record_check_result(RecordAlerts(statistics_collector, alert_pairs),
                                              TRUE, arbitrage_pairs, funding_data)
                    /\ pc' = "idle"
          ELSE \* send_message in the except clause; the finally clause records
               \* the failed check whatever the send did
               /\ success' = FALSE
               /\ statistics_collector' =
                     record_check_result(statistics_collector, FALSE, arbitrage_pairs, funding_data)
               /\ pc' = "idle"
               /\ UNCHANGED alert_delivered
    /\ UNCHANGED <<matcherVars, rateVars, position_errors, alert_report, summaryVars, last_call, rounds, lifeVars>>

\* send_summary_report builds the report and hands it to the notifier.
SummaryStart ==
    /\ spc = "waiting"
    /\ summary_report' = _generate_summary_report(statistics_collector)
    /\ spc' = "sending"
    /\ UNCHANGED <<matcherVars, rateVars, pc, cycleVars, summary_delivered, statsVars, rounds, lifeVars>>

\* The notifier returns to send_summary_report, which goes on to reset_stats
\* and returns (its local summary_report is gone).
SummaryNotifierReturns ==
    /\ spc = "sending"
    /\ \E sent \in {send_formatted_message(outcome) : outcome \in TransportOutcomes} :
          IF sent.raised
          THEN \* the except clause: no reset
               /\ summary_delivered' = FALSE
               /\ UNCHANGED statistics_collector
          ELSE /\ summary_delivered' = sent.value
               /\ statistics_collector' = reset_stats(statistics_collector)
    /\ summary_report' = NoSummary
    /\ spc' = "waiting"
    /\ UNCHANGED <<matcherVars, rateVars, pc, cycleVars, last_call, rounds, lifeVars>>

\* the tasks cancelled with no finally clause in the cycle: nothing is recorded
TasksCancelled_WithoutFinally ==
    /\ pc # "cancelled"
    /\ pc' = "cancelled"
    /\ spc' = "cancelled"
    /\ summary_report' = NoSummary
    /\ UNCHANGED <<matcherVars, rateVars, cycleVars, summary_delivered, statsVars, rounds, lifeVars>>

\* _cleanup cancels the two loop tasks: CancelledError is thrown into each at
\* the await where it is suspended. It is not an Exception, so the except
\* clauses are passed over; the finally clause of a cycle in progress records
\* the check with success still False, and a flush in progress ends without
\* its reset.
TasksCancelled ==
    /\ pc # "cancelled"
    /\ pc' = "cancelled"
    /\ statistics_collector' =
          IF pc = "idle" THEN statistics_collector
          ELSE record_check_result(statistics_collector, FALSE, arbitrage_pairs, funding_data)
    /\ spc' = "cancelled"
    /\ summary_report' = NoSummary
    /\ UNCHANGED <<matcherVars, rateVars, cycleVars, summary_delivered, last_call, rounds, lifeVars>>

Next ==
    \/ CheckStart
    \/ PositionsFetched
    \/ RatesFetched
    \/ CycleNotifierReturns
    \/ SummaryStart
    \/ SummaryNotifierReturns
    \/ TasksCancelled

Spec == Init /\ [][Next]_vars

----------------------------------------------------------------------------
(* Pair matcher: properties of _find_arbitrage_pairs *)

HoldsSymbol(positions, symbol) == \E i \in DOMAIN positions : positions[i].symbol = symbol

\* The position an exchange's list contributes for a symbol: the last one listed.
EffectivePosition(positions, symbol) ==
    positions[CHOOSE i \in DOMAIN positions :
                 /\ positions[i].symbol = symbol
                 /\ \A j \in DOMAIN positions : positions[j].symbol = symbol => j <= i]

PositionsOf(exchange) == IF exchange = "binance" THEN binance_positions ELSE bybit_positions

\* Direction of a leg in the vocabulary of the exchange that reports it.
LegIsLong(exchange, pos) ==
    \/ exchange = "binance" /\ pos.side = "LONG"
    \/ exchange = "bybit" /\ pos.side = "Buy"

LegIsShort(exchange, pos) ==
    \/ exchange = "binance" /\ pos.side = "SHORT"
    \/ exchange = "bybit" /\ pos.side = "Sell"

PairsFor(symbol) == {i \in DOMAIN arbitrage_pairs : arbitrage_pairs[i].symbol = symbol}

OnBoth(symbol) == HoldsSymbol(binance_positions, symbol) /\ HoldsSymbol(bybit_positions, symbol)

BinanceLeg(symbol) == EffectivePosition(binance_positions, symbol)
BybitLeg(symbol) == EffectivePosition(bybit_positions, symbol)

OppositeSides(symbol) ==
    \/ LegIsLong("binance", BinanceLeg(symbol)) /\ LegIsShort("bybit", BybitLeg(symbol))
    \/ LegIsShort("binance", BinanceLeg(symbol)) /\ LegIsLong("bybit", BybitLeg(symbol))

\* |a - b| / ((a + b) / 2) > 1/20
RelativeDifferenceAboveTolerance(a, b) == 40 * Abs(a - b) > a + b

\* C4: every pair the matcher returns has a leg on each exchange for the pair's
\* instrument id, the leg on long_exchange is LONG, the leg on short_exchange
\* is SHORT, and long_exchange differs from short_exchange.
C4_PairLegsSameInstrumentOppositeSides ==
    pc = "matched" =>
        \A i \in DOMAIN arbitrage_pairs :
            LET p == arbitrage_pairs[i]
            IN /\ OnBoth(p.symbol)
               /\ p.long_exchange \in {"binance", "bybit"}
               /\ p.short_exchange \in {"binance", "bybit"}
               /\ p.long_exchange # p.short_exchange
               /\ LegIsLong(p.long_exchange,
                            EffectivePosition(PositionsOf(p.long_exchange), p.symbol))
               /\ LegIsShort(p.short_exchange,
                             EffectivePosition(PositionsOf(p.short_exchange), p.symbol))

\* A match returned a pair whose long leg is the Bybit "Buy" position.
C4_Witness ==
    /\ pc = "matched"
    /\ \E i \in DOMAIN arbitrage_pairs :
          /\ arbitrage_pairs[i].long_exchange = "bybit"
          /\ BybitLeg(arbitrage_pairs[i].symbol).side = "Buy"

\* C5: an instrument held on both exchanges with sizes a, b such that
\* |a-b| / ((a+b)/2) > 0.05 gets no pair, whatever the sides are.
C5_NoPairAboveTolerance ==
    pc = "matched" =>
        \A symbol \in Symbols :
            (OnBoth(symbol)
             /\ RelativeDifferenceAboveTolerance(BinanceLeg(symbol).size, BybitLeg(symbol).size))
                => PairsFor(symbol) = {}

\* Opposite sides, sizes 39 and 43 (9.8% apart), and no pair after the match.
C5_Witness ==
    /\ pc = "matched"
    /\ \E symbol \in Symbols :
          /\ OnBoth(symbol)
          /\ OppositeSides(symbol)
          /\ BinanceLeg(symbol).size = 39
          /\ BybitLeg(symbol).size = 43
          /\ PairsFor(symbol) = {}

\* C6: an instrument on both exchanges with opposite sides and a relative size
\* difference of at most 0.05 (0.05 included) gets exactly one pair, with
\* long_exchange/long_size from the LONG leg, short_exchange/short_size from
\* the SHORT leg and size_difference = |size_a - size_b|; an instrument on one
\* exchange only, or with equal sides, gets none.
C6_ExactlyOnePairWithinTolerance ==
    pc = "matched" =>
        \A symbol \in Symbols :
            IF ~OnBoth(symbol) THEN PairsFor(symbol) = {}
            ELSE LET b == BinanceLeg(symbol)
                     y == BybitLeg(symbol)
                     long_exchange == IF LegIsLong("binance", b) THEN "binance" ELSE "bybit"
                 IN IF ~OppositeSides(symbol) THEN PairsFor(symbol) = {}
                    ELSE ~RelativeDifferenceAboveTolerance(b.size, y.size) =>
                            /\ Cardinality(PairsFor(symbol)) = 1
                            /\ \A i \in PairsFor(symbol) :
                                  arbitrage_pairs[i] =
                                      [symbol |-> symbol,
                                       long_exchange |-> long_exchange,
                                       short_exchange |-> IF long_exchange = "binance"
                                                          THEN "bybit" ELSE "binance",
                                       long_size |-> IF long_exchange = "binance"
                                                     THEN b.size ELSE y.size,
                                       short_size |-> IF long_exchange = "binance"
                                                      THEN y.size ELSE b.size,
                                       size_difference |-> Abs(b.size - y.size)]

\* Sizes 39 (Binance, SHORT) and 41 (Bybit, Buy) are exactly 5% apart and are paired.
C6_Witness ==
    /\ pc = "matched"
    /\ \E i \in DOMAIN arbitrage_pairs :
          /\ arbitrage_pairs[i].long_exchange = "bybit"
          /\ arbitrage_pairs[i].long_size = 41
          /\ arbitrage_pairs[i].short_size = 39
          /\ arbitrage_pairs[i].size_difference = 2

\* C7: the result of one match holds at most one pair per instrument id, also
\* when a position list holds several positions of one instrument.
C7_AtMostOnePairPerInstrument ==
    pc = "matched" =>
        \A i, j \in DOMAIN arbitrage_pairs :
            arbitrage_pairs[i].symbol = arbitrage_pairs[j].symbol => i = j

\* Binance listed an instrument more than once and the instrument was paired.
C7_Witness ==
    /\ pc = "matched"
    /\ \E i \in DOMAIN arbitrage_pairs :
          Cardinality({k \in DOMAIN binance_positions :
                          binance_positions[k].symbol = arbitrage_pairs[i].symbol}) >= 2

NormalizedList(positions, exchange) ==
    [i \in DOMAIN positions |->
        [positions[i] EXCEPT !.side = _normalize_side(positions[i].side, exchange)]]

OtherExchange(exchange) == IF exchange = "binance" THEN "bybit" ELSE "binance"

LabelsExchanged(p) ==
    [p EXCEPT !.long_exchange = OtherExchange(p.long_exchange),
              !.short_exchange = OtherExchange(p.short_exchange)]

DictValues(d) == {d[i] : i \in DOMAIN d}

\* The match of the two normalized lists handed over in the other order.
MatchExchanged ==
    _find_arbitrage_pairs(NormalizedList(bybit_positions, "bybit"),
                          NormalizedList(binance_positions, "binance"))

\* C8: matching the two normalized lists in the other order yields pairs for
\* the same instrument ids with the same long_size, short_size and
\* size_difference, and with the long/short exchange labels exchanged.
C8_MatchSymmetric ==
    pc = "matched" =>
        /\ Len(MatchExchanged) = Len(arbitrage_pairs)
        /\ {LabelsExchanged(p) : p \in DictValues(MatchExchanged)} = DictValues(arbitrage_pairs)

\* A pair with legs of different sizes was returned.
C8_Witness ==
    /\ pc = "matched"
    /\ \E i \in DOMAIN arbitrage_pairs :
          /\ arbitrage_pairs[i].long_size # arbitrage_pairs[i].short_size
          /\ Len(MatchExchanged) >= 1

----------------------------------------------------------------------------
(* Differential evaluation: properties of _check_for_alerts and _generate_report *)

\* The outcome of the rate request of one leg, as the exchange gave it.
LegResult(exchange) == IF exchange = "binance" THEN binance_rates ELSE bybit_rates

LegRateFetched(exchange, symbol) ==
    ~LegResult(exchange).exception /\ symbol \in DOMAIN LegResult(exchange).rates

ReportSection(symbol) == report[CHOOSE i \in DOMAIN report : report[i].symbol = symbol]

\* C1: a pair whose legs have the rates long_rate and short_rate is reported
\* as alert-triggered (in the V2 alert set, with the V1 warning) if and only if
\* short_rate - long_rate <= threshold; a spread equal to the threshold triggers.
C1_AlertIffSpreadAtMostThreshold ==
    pc = "evaluated" =>
        \A i \in DOMAIN arbitrage_pairs :
            LET p == arbitrage_pairs[i]
                long_rate == funding_data[p.symbol][p.long_exchange].rate
                short_rate == funding_data[p.symbol][p.short_exchange].rate
            IN /\ DictHas(alert_pairs, p.symbol) <=> (short_rate - long_rate <= funding_rate_threshold)
               /\ DictHas(alert_pairs, p.symbol) => DictGet(alert_pairs, p.symbol) = p
               /\ ReportSection(p.symbol).rate_diff = short_rate - long_rate
               /\ ReportSection(p.symbol).threshold_warning
                     <=> (short_rate - long_rate <= funding_rate_threshold)

\* Both rates fetched, the spread equals a threshold of 100, and the pair triggered.
C1_Witness ==
    /\ pc = "evaluated"
    /\ funding_rate_threshold = 100
    /\ \E i \in DOMAIN arbitrage_pairs :
          LET p == arbitrage_pairs[i]
          IN /\ LegRateFetched("binance", p.symbol)
             /\ LegRateFetched("bybit", p.symbol)
             /\ funding_data[p.symbol][p.short_exchange].rate
                   - funding_data[p.symbol][p.long_exchange].rate = 100
             /\ DictHas(alert_pairs, p.symbol)

\* C2: a pair with a leg whose rate could not be fetched is not in the alert
\* set of that cycle.
C2_MissingRateExcludedFromAlerting ==
    pc = "evaluated" =>
        \A i \in DOMAIN arbitrage_pairs :
            LET p == arbitrage_pairs[i]
            IN (~LegRateFetched("binance", p.symbol) \/ ~LegRateFetched("bybit", p.symbol))
                  => ~DictHas(alert_pairs, p.symbol)

----------------------------------------------------------------------------
(* FRMonitorV2: properties of the check cycle and of the summary flush *)

\* C3: when the delivery of the summary report fails, the statistics are not
\* reset: total checks, failed checks and the per-symbol statistics are the
\* same after the flush as before it.
C3_FailedDeliveryKeepsStatistics ==
    [][(spc = "sending" /\ spc' = "waiting" /\ ~summary_delivered')
          => /\ get_total_checks(statistics_collector') = get_total_checks(statistics_collector)
             /\ get_failed_checks(statistics_collector') = get_failed_checks(statistics_collector)
             /\ statistics_collector'.symbol_stats = statistics_collector.symbol_stats]_vars

\* C9: when the position fetch of an exchange fails, that exchange's positions
\* are the empty list, the pairs are those the matcher finds in the remaining
\* data, and the cycle ends without an error: its success flag is set and one
\* successful check is recorded.
C9_FailedPositionFetchDegrades ==
    [][(pc = "detect" /\ pc' # "detect"
        /\ (position_errors'["binance"] \/ position_errors'["bybit"]))
          => /\ position_errors'["binance"] => binance_positions' = <<>>
             /\ position_errors'["bybit"] => bybit_positions' = <<>>
             /\ arbitrage_pairs' = _find_arbitrage_pairs(binance_positions', bybit_positions')
             /\ pc' = "idle"
             /\ success'
             /\ statistics_collector'.check_results =
                   Append(statistics_collector.check_results, [success |-> TRUE])
             /\ get_failed_checks(statistics_collector') = get_failed_checks(statistics_collector)]_vars

\* The Binance fetch failed, Bybit reported positions, and the cycle is over
\* with its success flag set.
C9_Witness ==
    /\ pc = "idle"
    /\ position_errors["binance"]
    /\ ~position_errors["bybit"]
    /\ bybit_positions # <<>>
    /\ binance_positions = <<>>
    /\ success
    /\ get_successful_checks(statistics_collector) >= 1

----------------------------------------------------------------------------
(* Statistics aggregator: properties of its methods *)

MethodCalled(op) == last_call'.flip # last_call.flip /\ last_call'.op = op

\* C10: every call of record_check_result increases total_checks by exactly
\* one; it increases the failed-check count by exactly one when success is
\* false and leaves it unchanged when success is true.
C10_RecordCheckCountsEveryCall ==
    [][MethodCalled("record_check_result")
          => /\ get_total_checks(statistics_collector') = get_total_checks(statistics_collector) + 1
             /\ get_failed_checks(statistics_collector') =
                   get_failed_checks(statistics_collector) + (IF last_call'.success THEN 0 ELSE 1)]_vars

\* A failed check was recorded after a successful one.
C10_Witness ==
    /\ last_call.op = "record_check_result"
    /\ ~last_call.success
    /\ get_total_checks(statistics_collector) = 2
    /\ get_failed_checks(statistics_collector) = 1


\* The statistics entry of a symbol, or the entry a first use creates.
StatsOf(self, symbol) ==
    IF symbol \in DOMAIN self.symbol_stats THEN self.symbol_stats[symbol]
    ELSE [symbol |-> symbol, check_count |-> 0, alert_count |-> 0,
          rate_differences |-> <<>>, current_rate_diff |-> 0]

\* The pair has a rate entry of both its exchanges in the funding data handed over.
UsableResult(p, funding) ==
    /\ p.symbol \in DOMAIN funding
    /\ p.long_exchange \in DOMAIN funding[p.symbol]
    /\ p.short_exchange \in DOMAIN funding[p.symbol]

SpreadOf(p, funding) ==
    funding[p.symbol][p.short_exchange].rate - funding[p.symbol][p.long_exchange].rate

\* C11: a successful record_check_result creates or updates the statistics of
\* every pair with a usable result: check_count grows by exactly one, the
\* value short_rate - long_rate is appended at the end of the spread history,
\* and current_spread becomes that value.
C11_SuccessfulCheckUpdatesPairStatistics ==
    [][(MethodCalled("record_check_result") /\ last_call'.success)
          => \A i \in DOMAIN last_call'.pairs :
                LET p == last_call'.pairs[i]
                    funding == last_call'.funding
                    before == StatsOf(statistics_collector, p.symbol)
                    after == StatsOf(statistics_collector', p.symbol)
                IN UsableResult(p, funding)
                      => /\ p.symbol \in DOMAIN statistics_collector'.symbol_stats
                         /\ after.check_count = before.check_count + 1
                         /\ after.rate_differences =
                               Append(before.rate_differences, SpreadOf(p, funding))
                         /\ after.current_rate_diff = SpreadOf(p, funding)]_vars

\* A second successful check of BTCUSDT appended a spread of 100 after one of -100.
C11_Witness ==
    /\ last_call.op = "record_check_result"
    /\ last_call.success
    /\ "BTCUSDT" \in DOMAIN statistics_collector.symbol_stats
    /\ statistics_collector.symbol_stats["BTCUSDT"].check_count = 2
    /\ statistics_collector.symbol_stats["BTCUSDT"].rate_differences = <<-100, 100>>
    /\ statistics_collector.symbol_stats["BTCUSDT"].current_rate_diff = 100

\* C12: record_alert(symbol) increases the alert_count of that symbol by exactly
\* one; when the symbol has no statistics entry it creates one with
\* check_count 0 and an empty history.
C12_RecordAlertCountsOne ==
    [][MethodCalled("record_alert")
          => LET symbol == last_call'.symbol
                 before == StatsOf(statistics_collector, symbol)
             IN /\ symbol \in DOMAIN statistics_collector'.symbol_stats
                /\ statistics_collector'.symbol_stats[symbol] =
                      [before EXCEPT !.alert_count = before.alert_count + 1]
                /\ symbol \notin DOMAIN statistics_collector.symbol_stats
                      => /\ statistics_collector'.symbol_stats[symbol].check_count = 0
                         /\ statistics_collector'.symbol_stats[symbol].rate_differences = <<>>
                         /\ statistics_collector'.symbol_stats[symbol].alert_count = 1]_vars

\* record_alert created the entry of ETHUSDT: one alert, no check.
C12_Witness ==
    /\ last_call.op = "record_alert"
    /\ last_call.symbol = "ETHUSDT"
    /\ "ETHUSDT" \in DOMAIN statistics_collector.symbol_stats
    /\ statistics_collector.symbol_stats["ETHUSDT"].alert_count = 1
    /\ statistics_collector.symbol_stats["ETHUSDT"].check_count = 0

----------------------------------------------------------------------------
(* FRMonitorV2: alert counting over the check cycles of a reporting window *)

AlertCount(self, symbol) == StatsOf(self, symbol).alert_count

\* A step that ends a check cycle (its finally clause has recorded the check).
CycleEnds == pc # "idle" /\ pc' = "idle"

\* A step in which send_summary_report resets the statistics.
WindowEnds == spc = "sending" /\ spc' = "waiting"

\* The pair of the symbol was matched in the cycle that ends with this step
\* and its spread is at most the threshold.
TriggeredInEndingCycle(symbol) ==
    /\ DictHas(arbitrage_pairs', symbol)
    /\ symbol \in DOMAIN funding_data'
    /\ LET p == DictGet(arbitrage_pairs', symbol)
       IN /\ UsableResult(p, funding_data')
          /\ SpreadOf(p, funding_data') <= funding_rate_threshold'

\* C13: the step that ends a check cycle adds exactly one to the alert_count of
\* every instrument whose pair triggered in that cycle and nothing to the
\* others; no other step changes an alert_count except the reset, which puts
\* all of them to zero.  Hence alert_count is the number of cycles of the
\* current window in which the instrument triggered.
C13_AlertCountedOncePerTriggeredCycle ==
    [][\A symbol \in Symbols :
          /\ CycleEnds
                => AlertCount(statistics_collector', symbol) =
                      AlertCount(statistics_collector, symbol)
                         + (IF TriggeredInEndingCycle(symbol) THEN 1 ELSE 0)
          /\ WindowEnds => AlertCount(statistics_collector', symbol) = 0
          /\ (~CycleEnds /\ ~WindowEnds)
                => AlertCount(statistics_collector', symbol) =
                      AlertCount(statistics_collector, symbol)]_vars

\* Two cycles of one window matched both pairs; BTCUSDT triggered in both, ETHUSDT in none.
C13_Witness ==
    /\ pc = "idle"
    /\ get_total_checks(statistics_collector) = 2
    /\ Len(arbitrage_pairs) = 2
    /\ DictHas(alert_pairs, "BTCUSDT")
    /\ ~DictHas(alert_pairs, "ETHUSDT")
    /\ AlertCount(statistics_collector, "BTCUSDT") = 2
    /\ AlertCount(statistics_collector, "ETHUSDT") = 0
    /\ StatsOf(statistics_collector, "ETHUSDT").check_count = 2

----------------------------------------------------------------------------
(* Aggregator driven in rounds: one successful check of a fixed set of pairs, *)
(* then one record_alert per pair                                            *)

\* Rounds driven on one aggregator.
MaxRounds == 3

\* Funding data with a rate of both exchanges for every pair.
UsableFunding(pairs) ==
    [{pairs[i].symbol : i \in DOMAIN pairs} -> {BothRates(100, 0), BothRates(0, 100)}]

\* A new aggregator and the pairs every check of the run reports.
InitRounds ==
    /\ binance_positions = <<>>
    /\ bybit_positions = <<>>
    /\ arbitrage_pairs \in StatsPairInputs \ {<<>>}
    /\ pc = "check"
    /\ NoRateData
    /\ DriverAtRest
    /\ LifeAtRest
    /\ statistics_collector = StatisticsCollector
    /\ last_call = NoCall

\* record_check_result(success=True, arbitrage_pairs, funding_data)
RoundCheck ==
    /\ pc = "check"
    /\ rounds < MaxRounds
    /\ \E funding \in UsableFunding(arbitrage_pairs) :
          /\ statistics_collector' =
                record_check_result(statistics_collector, TRUE, arbitrage_pairs, funding)
          /\ funding_data' = funding
          /\ last_call' = Called("record_check_result", TRUE, "", arbitrage_pairs, funding)
    /\ alert_pairs' = <<>>
    /\ pc' = "alert"
    /\ UNCHANGED <<matcherVars, binance_rates, bybit_rates, rate_request,
                   funding_rate_threshold, report, cycleVars, summaryVars, rounds, lifeVars>>

\* record_alert(symbol) for a pair not yet alerted in this round; after the
\* last one the round is complete.
RoundAlert ==
    /\ pc = "alert"
    /\ \E i \in DOMAIN arbitrage_pairs :
          LET p == arbitrage_pairs[i]
          IN /\ ~DictHas(alert_pairs, p.symbol)
             /\ statistics_collector' = record_alert(statistics_collector, p.symbol)
             /\ last_call' = Called("record_alert", TRUE, p.symbol, <<>>, EmptyDict)
             /\ alert_pairs' = DictSet(alert_pairs, p.symbol, p)
    /\ IF Len(alert_pairs') = Len(arbitrage_pairs)
       THEN pc' = "check" /\ rounds' = rounds + 1
       ELSE pc' = "alert" /\ rounds' = rounds
    /\ UNCHANGED <<matcherVars, binance_rates, bybit_rates, rate_request, funding_data,
                   funding_rate_threshold, report, cycleVars, summaryVars, lifeVars>>

NextRounds == RoundCheck \/ RoundAlert

SpecRounds == InitRounds /\ [][NextRounds]_vars

\* The value of a quotient is the integer x.
QuotientIs(q, x) == ~q.raised /\ q.num = x * q.den

\* C14: after k >= 1 rounds, each a successful check containing the n pairs
\* with usable rates followed by one record_alert per pair, every pair's
\* statistics have check_count = k, alert_count = k and alert_rate = 100, and
\* total_checks = k, total alerts = n * k.
C14_RoundsCountChecksAndAlerts ==
    (pc = "check" /\ rounds >= 1) =>
        /\ \A i \in DOMAIN arbitrage_pairs :
              LET X == arbitrage_pairs[i].symbol
              IN /\ X \in DOMAIN statistics_collector.symbol_stats
                 /\ statistics_collector.symbol_stats[X].check_count = rounds
                 /\ statistics_collector.symbol_stats[X].alert_count = rounds
                 /\ QuotientIs(alert_rate(statistics_collector.symbol_stats[X]), 100)
        /\ get_total_checks(statistics_collector) = rounds
        /\ get_total_alerts(statistics_collector) = Len(arbitrage_pairs) * rounds

\* Two rounds with two pairs: two checks and four alerts.
C14_Witness ==
    /\ pc = "check"
    /\ rounds = 2
    /\ Len(arbitrage_pairs) = 2
    /\ get_total_checks(statistics_collector) = 2
    /\ get_total_alerts(statistics_collector) = 4
    /\ statistics_collector.symbol_stats["ETHUSDT"].alert_count = 2

----------------------------------------------------------------------------
(* Statistics aggregator: properties of its summary figures *)

\* C15: in every state of the aggregator the total alert count of the summary
\* is the sum of alert_count over the per-symbol statistics entries.
C15_TotalAlertsIsSumOfAlertCounts ==
    pc = "api" =>
        /\ DOMAIN statistics_collector.symbol_stats \subseteq Symbols
        /\ _generate_summary_report(statistics_collector).total_alerts =
              AlertCount(statistics_collector, "BTCUSDT")
                 + AlertCount(statistics_collector, "ETHUSDT")

\* Two alerts of BTCUSDT and one of ETHUSDT: three in total.
C15_Witness ==
    /\ pc = "api"
    /\ AlertCount(statistics_collector, "BTCUSDT") = 2
    /\ AlertCount(statistics_collector, "ETHUSDT") = 1
    /\ _generate_summary_report(statistics_collector).total_alerts = 3

\* C16: the alert rate of a symbol is alert_count / check_count * 100 when
\* check_count > 0 and 0 when check_count = 0 (an entry created by
\* record_alert alone); computing it never fails on a division by zero.
C16_AlertRateGuardsZeroChecks ==
    pc = "api" =>
        \A s \in DOMAIN statistics_collector.symbol_stats :
            LET st == statistics_collector.symbol_stats[s]
                rate == _generate_summary_report(statistics_collector).details[s].alert_rate
            IN /\ ~rate.raised
               /\ rate.den > 0
               /\ st.check_count > 0
                     => rate.num * st.check_count = st.alert_count * 100 * rate.den
               /\ st.check_count = 0 => rate.num = 0

\* BTCUSDT has an alert and no check; ETHUSDT has one alert in two checks.
C16_Witness ==
    /\ pc = "api"
    /\ DOMAIN statistics_collector.symbol_stats = Symbols
    /\ statistics_collector.symbol_stats["BTCUSDT"].check_count = 0
    /\ statistics_collector.symbol_stats["BTCUSDT"].alert_count = 1
    /\ statistics_collector.symbol_stats["ETHUSDT"].check_count = 2
    /\ statistics_collector.symbol_stats["ETHUSDT"].alert_count = 1

C18_CountsMonotonicBetweenResets ==
    [][(last_call'.flip # last_call.flip /\ last_call'.op # "reset_stats")
          => /\ get_total_checks(statistics_collector') >= get_total_checks(statistics_collector)
             /\ \A s \in Symbols :
                   AlertCount(statistics_collector', s) >= AlertCount(statistics_collector, s)]_vars

\* A check was recorded for a symbol that already had two alerts and a check.
C18_Witness ==
    /\ pc = "api"
    /\ last_call.op = "record_check_result"
    /\ last_call.success
    /\ get_total_checks(statistics_collector) = 2
    /\ AlertCount(statistics_collector, "BTCUSDT") = 2
    /\ StatsOf(statistics_collector, "BTCUSDT").check_count = 2

----------------------------------------------------------------------------
(* FRMonitorV2: properties of the summary flush *)

\* The flush ends with statistics that held checks before it and hold none after it.
RecordedChecksCleared ==
    /\ WindowEnds
    /\ get_total_checks(statistics_collector) > 0
    /\ get_total_checks(statistics_collector') = 0

\* C19: the statistics are reset only after the summary of the window has been
\* delivered successfully: never without a delivery.
C19_ResetOnlyAfterSuccessfulDelivery ==
    [][RecordedChecksCleared => summary_delivered']_vars

----------------------------------------------------------------------------
(* FRMonitorV2: order of the steps of one check cycle *)

PairSymbols(pairs) == {pairs[i].symbol : i \in DOMAIN pairs}

\* The step hands a list of symbols to get_funding_rates.
RateRequestIssued == rate_request' # rate_request /\ rate_request' # <<>>

\* The step receives the funding data of the cycle.
RateFetchCompletes == funding_data' # funding_data /\ funding_data' # EmptyDict

\* The step leaves a non-empty alert set.
AlertsEvaluated == alert_pairs' # alert_pairs /\ alert_pairs' # <<>>

\* C20: within one check cycle the rate request is issued only when both
\* position fetches have completed and the matcher has run on their results,
\* and only for the instrument ids of the matched pairs; the funding data
\* arrive only after that request and cover exactly the requested ids; the
\* alert evaluation runs only on funding data that have arrived; a cycle that
\* matched no pair issues no rate request.
C20_CycleStepsInOrder ==
    [][/\ RateRequestIssued
             => /\ pc = "detect"
                /\ arbitrage_pairs' # <<>>
                /\ arbitrage_pairs' = _find_arbitrage_pairs(binance_positions', bybit_positions')
                /\ SeqToSet(rate_request') = PairSymbols(arbitrage_pairs')
                /\ funding_data' = EmptyDict
                /\ alert_pairs' = <<>>
       /\ RateFetchCompletes
             => /\ pc = "rates"
                /\ rate_request # <<>>
                /\ DOMAIN funding_data' = SeqToSet(rate_request)
                /\ DOMAIN binance_rates'.rates \subseteq SeqToSet(rate_request)
                /\ DOMAIN bybit_rates'.rates \subseteq SeqToSet(rate_request)
       /\ AlertsEvaluated
             => /\ pc = "rates"
                /\ funding_data' # EmptyDict
                /\ PairSymbols(alert_pairs') \subseteq DOMAIN funding_data'
       /\ (CycleEnds /\ arbitrage_pairs' = <<>>)
             => /\ rate_request' = <<>>
                /\ binance_rates' = NoRates
                /\ bybit_rates' = NoRates
                /\ funding_data' = EmptyDict]_vars

\* A cycle fetched positions of both exchanges, matched BTCUSDT alone although
\* Binance also holds ETHUSDT, requested the rates of BTCUSDT only and alerted.
C20_Witness ==
    /\ pc = "idle"
    /\ Len(binance_positions) = 2
    /\ Len(bybit_positions) = 1
    /\ PairSymbols(arbitrage_pairs) = {"BTCUSDT"}
    /\ rate_request = <<"BTCUSDT">>
    /\ DOMAIN funding_data = {"BTCUSDT"}
    /\ DictHas(alert_pairs, "BTCUSDT")

----------------------------------------------------------------------------
(* Rate fetch: isolation of failures *)

\* C27: in a batched rate fetch every instrument whose request succeeded on an
\* exchange has its rate returned for that exchange, whatever happened to the
\* requests of the other instruments and to the other exchange; every
\* requested instrument has an entry and every pair a report section.
C27_RateFailuresIsolated ==
    pc = "evaluated" =>
        /\ DOMAIN funding_data = SeqToSet(rate_request)
        /\ \A i \in DOMAIN rate_request : \A e \in Exchanges :
              LET r == LegResult(e)
              IN (~r.exception /\ r.requests[i].ok)
                    => funding_data[rate_request[i]][e] =
                          RateEntry(r.requests[i].rate * 100, FALSE)
        /\ \A i \in DOMAIN arbitrage_pairs :
              \E k \in DOMAIN report : report[k].symbol = arbitrage_pairs[i].symbol

\* Binance failed as a whole and the Bybit request of BTCUSDT failed; the
\* Bybit rate of ETHUSDT is in the funding data.
C27_Witness ==
    /\ pc = "evaluated"
    /\ rate_request = <<"BTCUSDT", "ETHUSDT">>
    /\ binance_rates.exception
    /\ ~bybit_rates.exception
    /\ ~bybit_rates.requests[1].ok
    /\ bybit_rates.requests[2] = RequestOk(1)
    /\ funding_data["ETHUSDT"]["bybit"] = RateEntry(100, FALSE)
    /\ funding_data["BTCUSDT"]["bybit"].error

----------------------------------------------------------------------------
(* Incomplete data and the spread history *)

\* Both legs of the pair have a rate that its exchange delivered in the cycle
\* that ends with this step.
LegsResolved(p) ==
    /\ p.symbol \in DOMAIN funding_data'
    /\ ~funding_data'[p.symbol][p.long_exchange].error
    /\ ~funding_data'[p.symbol][p.short_exchange].error

\* C30: a successful cycle is counted in the check counters for every matched
\* pair, and a pair appends a spread to the history of its instrument only if
\* both its legs' rates were resolved: a pair with an unresolved leg leaves the
\* spread history as it was (no spread computed from a substituted zero).
C30_UnresolvedLegAddsNoSpread ==
    [][(CycleEnds /\ success')
          => /\ get_total_checks(statistics_collector') =
                   get_total_checks(statistics_collector) + 1
             /\ \A i \in DOMAIN arbitrage_pairs' :
                   LET p == arbitrage_pairs'[i]
                       before == StatsOf(statistics_collector, p.symbol)
                       after == StatsOf(statistics_collector', p.symbol)
                   IN p.symbol \in DOMAIN funding_data'
                         => /\ after.check_count = before.check_count + 1
                            /\ after.rate_differences =
                                  IF LegsResolved(p)
                                  THEN Append(before.rate_differences,
                                              SpreadOf(p, funding_data'))
                                  ELSE before.rate_differences]_vars

----------------------------------------------------------------------------
(* Config *)

\* The variables validate requires.
Credentials ==
    {"BINANCE_API_KEY", "BINANCE_API_SECRET", "BYBIT_API_KEY", "BYBIT_API_SECRET",
     "TELEGRAM_BOT_TOKEN", "TELEGRAM_CHAT_ID"}

None == "None"

\* os.getenv(name, default)
getenv(env, name, default) == IF name \in DOMAIN env THEN env[name] ELSE default

\* Config(): the attributes __init__ sets. Intervals are whole minutes; the
\* threshold is kept in hundredths (0.01 is 1).
Config(env) ==
    [binance_api_key |-> getenv(env, "BINANCE_API_KEY", None),
     binance_api_secret |-> getenv(env, "BINANCE_API_SECRET", None),
     bybit_api_key |-> getenv(env, "BYBIT_API_KEY", None),
     bybit_api_secret |-> getenv(env, "BYBIT_API_SECRET", None),
     telegram_bot_token |-> getenv(env, "TELEGRAM_BOT_TOKEN", None),
     telegram_chat_id |-> getenv(env, "TELEGRAM_CHAT_ID", None),
     query_interval_minutes |-> getenv(env, "QUERY_INTERVAL_MINUTES", 30),
     funding_rate_threshold |-> getenv(env, "FUNDING_RATE_THRESHOLD", 0)]

required_configs ==
    {"binance_api_key", "binance_api_secret", "bybit_api_key", "bybit_api_secret",
     "telegram_bot_token", "telegram_chat_id"}

\* validate(): TRUE when it raises ValueError.
validate(self) ==
    \/ \E a \in required_configs : self[a] \in {None, ""}
    \/ self.query_interval_minutes <= 0

\* self.<name>: the value, or AttributeError.
getattr(self, name) ==
    IF name \in DOMAIN self THEN [raised |-> FALSE, value |-> self[name]]
    ELSE [raised |-> TRUE, value |-> 0]

----------------------------------------------------------------------------
(* The programs FR_monitor_v1.py and FR_monitor_v2.py: main, the monitor's   *)
(* lifecycle and its periodic loops. A check cycle is one step here; its     *)
(* inside is the subject of the sections above.                              *)

Clients == {"binance", "bybit", "telegram"}

AllCredentials == [c \in Credentials |-> "set"]

\* The monitoring parameters set in the environment.
Settings ==
    { EmptyDict,
      ("MONITOR_INTERVAL_MINUTES" :> 2) @@ ("SUMMARY_INTERVAL_MINUTES" :> 30) @@
          ("FUNDING_RATE_THRESHOLD" :> 1),
      ("QUERY_INTERVAL_MINUTES" :> 1),
      ("QUERY_INTERVAL_MINUTES" :> 0),
      ("MONITOR_INTERVAL_MINUTES" :> 0),
      ("SUMMARY_INTERVAL_MINUTES" :> 0) }

Environs ==
    {AllCredentials @@ s : s \in Settings}
    \cup {[c \in Credentials \ {m} |-> "set"] : m \in Credentials}
    \cup {("TELEGRAM_CHAT_ID" :> "") @@ AllCredentials}

\* The attribute the check loop takes its interval from.
IntervalAttr(v) ==
    IF v = "v1" THEN "query_interval_minutes" ELSE "monitor_interval_minutes"

\* The attributes run_continuously reads for its first log lines.
StartupAttrs(v) ==
    IF v = "v1" THEN {"query_interval_minutes"}
    ELSE {"monitor_interval_minutes", "summary_interval_minutes"}

\* asyncio.wait_for(self._shutdown_event.wait(), timeout) when it returns:
\* at once if the event is set, else by TimeoutError when the time is up.
wait_for_SleepsOut(event_set) == {"timeout"}

wait_for(event_set) == IF event_set THEN {"returned"} ELSE {"timeout"}

driverVars == <<matcherVars, rateVars, pc, cycleVars, summaryVars, statsVars, rounds>>

\* The check cycle and the aggregator are not looked into.
DriverUnused ==
    /\ binance_positions = <<>>
    /\ bybit_positions = <<>>
    /\ arbitrage_pairs = <<>>
    /\ NoRateData
    /\ pc = "idle"
    /\ DriverAtRest
    /\ statistics_collector = StatisticsCollector
    /\ last_call = NoCall

\* The process is started: `python FR_monitor_v1.py` or `python FR_monitor_v2.py`,
\* with or without --once.
InitLife ==
    /\ DriverUnused
    /\ version \in {"v1", "v2"}
    /\ argv \in {{}, {"--once"}}
    /\ environ \in Environs
    /\ config = EmptyDict
    /\ main_pc = "start"
    /\ _shutdown_event = FALSE
    /\ monitor_pc = "none"
    /\ monitor_timeout = 0
    /\ summary_pc = "none"
    /\ summary_timeout = 0
    /\ cycle_result = "none"
    /\ notifier_result = NoSend
    /\ sessions = {}
    /\ closed = {}

\* main: Config() and validate() in the try; a ValueError is printed and main returns.
MainConfig ==
    /\ main_pc = "start"
    /\ config' = Config(environ)
    /\ main_pc' = IF validate(Config(environ)) THEN "rejected" ELSE "validated"
    /\ UNCHANGED <<driverVars, version, argv, environ, _shutdown_event, monitor_pc,
                   monitor_timeout, summary_pc, summary_timeout, cycle_result,
                   notifier_result, sessions, closed>>

\* FRMonitor() / FRMonitorV2(): the clients (no session yet), the shutdown
\* event (clear) and the signal handlers.
MonitorInit ==
    /\ main_pc = "validated"
    /\ main_pc' = "constructed"
    /\ _shutdown_event' = FALSE
    /\ sessions' = {}
    /\ UNCHANGED <<driverVars, version, argv, environ, config, monitor_pc, monitor_timeout,
                   summary_pc, summary_timeout, cycle_result, notifier_result, closed>>

\* The process lives and its signal handlers are installed.
HandlersInstalled ==
    main_pc \in {"constructed", "once", "startup", "running", "notify_shutdown", "cleanup"}

\* SIGINT or SIGTERM: signal_handler sets the event.
Signal ==
    /\ HandlersInstalled
    /\ ~_shutdown_event
    /\ _shutdown_event' = TRUE
    /\ UNCHANGED <<driverVars, version, argv, environ, config, main_pc, monitor_pc,
                   monitor_timeout, summary_pc, summary_timeout, cycle_result,
                   notifier_result, sessions, closed>>

\* main with --once: run_once enters its check.
RunOnce ==
    /\ main_pc = "constructed"
    /\ "--once" \in argv
    /\ main_pc' = "once"
    /\ monitor_pc' = "check"
    /\ UNCHANGED <<driverVars, version, argv, environ, config, _shutdown_event,
                   monitor_timeout, summary_pc, summary_timeout, cycle_result,
                   notifier_result, sessions, closed>>

\* main without --once: run_continuously formats its first log lines from the
\* interval attributes; an AttributeError there leaves run_continuously and main.
RunContinuously ==
    /\ main_pc = "constructed"
    /\ "--once" \notin argv
    /\ main_pc' = IF \E a \in StartupAttrs(version) : getattr(config, a).raised
                  THEN "crashed" ELSE "startup"
    /\ UNCHANGED <<driverVars, version, argv, environ, config, _shutdown_event, monitor_pc,
                   monitor_timeout, summary_pc, summary_timeout, cycle_result,
                   notifier_result, sessions, closed>>

\* send_startup_notification returns (an exception of it is caught and logged);
\* V1 enters its loop, V2 creates its two tasks and waits for the event.
StartupNotified ==
    /\ main_pc = "startup"
    /\ \E outcome \in TransportOutcomes :
          LET sent == send_startup_notification(outcome)
          IN notifier_result' = NotifierCall("startup", outcome, sent.raised, sent.value)
    /\ sessions' = sessions \cup {"telegram"}
    /\ main_pc' = "running"
    /\ monitor_pc' = "top"
    /\ summary_pc' = IF version = "v2" THEN "top" ELSE "none"
    /\ UNCHANGED <<driverVars, version, argv, environ, config, _shutdown_event,
                   monitor_timeout, summary_timeout, cycle_result, closed>>

\* the loop written `while True`
MonitorLoopTop_WhileTrue ==
    /\ monitor_pc = "top"
    /\ monitor_pc' = "check"
    /\ UNCHANGED <<driverVars, version, argv, environ, config, main_pc, _shutdown_event,
                   monitor_timeout, summary_pc, summary_timeout, cycle_result,
                   notifier_result, sessions, closed>>

\* while not self._shutdown_event.is_set()
MonitorLoopTop ==
    /\ monitor_pc = "top"
    /\ monitor_pc' = IF _shutdown_event THEN "done" ELSE "check"
    /\ UNCHANGED <<driverVars, version, argv, environ, config, main_pc, _shutdown_event,
                   monitor_timeout, summary_pc, summary_timeout, cycle_result,
                   notifier_result, sessions, closed>>

\* What a check cycle does with the notifier: nothing (no pair, or in V2 no
\* alert), the report, or the error message of its except clause.
CycleKinds == {"quiet", "report", "error"}

CycleSend(kind, outcome) ==
    IF kind = "report" THEN send_formatted_message(outcome) ELSE send_message(outcome)

\* The cycle lets an exception out: only one the notifier raised in it (raised
\* for the report, it is raised again for the error message of the except clause).
CycleRaises(kind, outcome) == kind # "quiet" /\ CycleSend(kind, outcome).raised

\* the loop without an except clause: the exception ends it
except_clause_EndsLoop(event_set) == "done"

\* the except clause without its wait: the next round at once
except_clause_RetriesAtOnce(event_set) == IF event_set THEN "done" ELSE "top"

\* The except clause of the check loop: break if the event is set, else the
\* wait of 60 seconds.
except_clause(event_set) == IF event_set THEN "done" ELSE "wait"

\* check_and_notify / check_and_send_alert runs and returns to its caller. In
\* run_once the finally clause goes on to _cleanup. In the loop the interval is
\* read and the loop waits for it; an exception (of the cycle, or of reading
\* the interval) is caught by the loop: it ends if the event is set, else
\* (V1: after send_error_notification) it waits 60 seconds.
CheckCycle ==
    /\ monitor_pc = "check"
    /\ \E kind \in CycleKinds, outcome \in TransportOutcomes,
          error_outcome \in TransportOutcomes :
          LET sent == CycleSend(kind, outcome)
              raises == CycleRaises(kind, outcome)
              interval == getattr(config, IntervalAttr(version))
              caught == raises \/ interval.raised
              error_sent == send_error_notification(error_outcome)
          IN /\ cycle_result' = IF raises THEN "raised"
                                ELSE IF kind = "error" THEN "failed" ELSE "ok"
             /\ sessions' = sessions \cup {"binance", "bybit"}
                               \cup (IF kind = "quiet" THEN {} ELSE {"telegram"})
             /\ IF main_pc = "once"
                THEN /\ main_pc' = "cleanup"
                     /\ monitor_pc' = "none"
                     /\ monitor_timeout' = 0
                     /\ notifier_result' =
                           IF kind = "quiet" THEN notifier_result
                           ELSE NotifierCall(kind, outcome, sent.raised, sent.value)
                ELSE /\ main_pc' = main_pc
                     /\ monitor_pc' = IF caught THEN except_clause(_shutdown_event) ELSE "wait"
                     /\ monitor_timeout' =
                           IF caught THEN (IF monitor_pc' = "wait" THEN 60 ELSE 0)
                           ELSE interval.value * 60
                     /\ notifier_result' =
                           IF caught /\ ~_shutdown_event /\ version = "v1"
                           THEN NotifierCall("loop_error", error_outcome,
                                             error_sent.raised, error_sent.value)
                           ELSE IF kind = "quiet" THEN notifier_result
                           ELSE NotifierCall(kind, outcome, sent.raised, sent.value)
    /\ UNCHANGED <<driverVars, version, argv, environ, config, _shutdown_event,
                   summary_pc, summary_timeout, closed>>

\* The wait_for of the check loop returns: the loop ends if the event was set
\* (monitor_timeout keeps the timeout of the wait it left), and goes to its
\* next round on TimeoutError.
MonitorWaitReturns ==
    /\ monitor_pc = "wait"
    /\ \E r \in wait_for(_shutdown_event) :
          IF r = "returned"
          THEN monitor_pc' = "done" /\ UNCHANGED monitor_timeout
          ELSE monitor_pc' = "top" /\ monitor_timeout' = 0
    /\ UNCHANGED <<driverVars, version, argv, environ, config, main_pc, _shutdown_event,
                   summary_pc, summary_timeout, cycle_result, notifier_result,
                   sessions, closed>>

\* _summary_loop: the while test and the read of the interval; the
\* AttributeError of the read is caught by the loop, which waits 300 seconds.
SummaryLoopTop ==
    /\ summary_pc = "top"
    /\ LET interval == getattr(config, "summary_interval_minutes")
       IN IF _shutdown_event
          THEN summary_pc' = "done" /\ summary_timeout' = 0
          ELSE IF interval.raised
               THEN summary_pc' = "wait_backoff" /\ summary_timeout' = 300
               ELSE summary_pc' = "wait_interval" /\ summary_timeout' = interval.value * 60
    /\ UNCHANGED <<driverVars, version, argv, environ, config, main_pc, _shutdown_event,
                   monitor_pc, monitor_timeout, cycle_result, notifier_result,
                   sessions, closed>>

\* The wait_for of the summary loop returns: the loop ends if the event was
\* set; on TimeoutError after the interval send_summary_report runs, after the
\* backoff the loop goes to its next round (summary_timeout keeps the timeout
\* of a wait the loop ended in).
SummaryWaitReturns ==
    /\ summary_pc \in {"wait_interval", "wait_backoff"}
    /\ \E r \in wait_for(_shutdown_event), outcome \in TransportOutcomes :
          LET sent == send_formatted_message(outcome)
          IN IF r = "returned"
             THEN /\ summary_pc' = "done"
                  /\ UNCHANGED <<summary_timeout, notifier_result, sessions>>
             ELSE /\ summary_pc' = "top"
                  /\ summary_timeout' = 0
                  /\ IF summary_pc = "wait_interval"
                     THEN /\ notifier_result' =
                                NotifierCall("summary", outcome, sent.raised, sent.value)
                          /\ sessions' = sessions \cup {"telegram"}
                     ELSE UNCHANGED <<notifier_result, sessions>>
    /\ UNCHANGED <<driverVars, version, argv, environ, config, main_pc, _shutdown_event,
                   monitor_pc, monitor_timeout, cycle_result, closed>>

\* run_continuously reaches its finally clause: V1 when its loop has ended,
\* V2 when the wait for the event returns.
MainShutdown ==
    /\ main_pc = "running"
    /\ IF version = "v1" THEN monitor_pc = "done" ELSE _shutdown_event
    /\ main_pc' = "notify_shutdown"
    /\ UNCHANGED <<driverVars, version, argv, environ, config, _shutdown_event, monitor_pc,
                   monitor_timeout, summary_pc, summary_timeout, cycle_result,
                   notifier_result, sessions, closed>>

\* send_shutdown_notification returns; an exception of it is caught and logged.
ShutdownNotified ==
    /\ main_pc = "notify_shutdown"
    /\ \E outcome \in TransportOutcomes :
          LET sent == send_shutdown_notification(outcome)
          IN notifier_result' = NotifierCall("shutdown", outcome, sent.raised, sent.value)
    /\ sessions' = sessions \cup {"telegram"}
    /\ main_pc' = "cleanup"
    /\ UNCHANGED <<driverVars, version, argv, environ, config, _shutdown_event, monitor_pc,
                   monitor_timeout, summary_pc, summary_timeout, cycle_result, closed>>

\* A task _cleanup cancels if it is not done.
Cancelled(task_pc) == IF task_pc \in {"none", "done"} THEN task_pc ELSE "cancelled"

\* The order in which _cleanup closes the clients.
CloseOrder == <<"binance", "bybit", "telegram">>

\* The try block of _cleanup: the close() calls one after the other; the first
\* that raises ends the block (the except clause logs it). failing is the
\* client whose close() raises, or "none". The result: the clients closed.
RECURSIVE CloseAll(_, _)
CloseAll(clients, failing) ==
    IF clients = <<>> \/ Head(clients) = failing THEN {}
    ELSE {Head(clients)} \cup CloseAll(Tail(clients), failing)

\* _cleanup: the tasks are cancelled and the clients closed in order; close()
\* of a client can raise only where it has a session to close. main returns,
\* or the exception the check of run_once let out leaves main.
Cleanup ==
    /\ main_pc = "cleanup"
    /\ monitor_pc' = Cancelled(monitor_pc)
    /\ summary_pc' = Cancelled(summary_pc)
    /\ \E failing \in {"none"} \cup sessions :
          /\ closed' = CloseAll(CloseOrder, failing)
          /\ sessions' = sessions \ closed'
    /\ main_pc' = IF cycle_result = "raised" /\ "--once" \in argv THEN "crashed" ELSE "exited"
    /\ UNCHANGED <<driverVars, version, argv, environ, config, _shutdown_event,
                   monitor_timeout, summary_timeout, cycle_result, notifier_result>>

\* The steps the program takes by itself (all but the arrival of a signal).
ProgramStep ==
    \/ MainConfig
    \/ MonitorInit
    \/ RunOnce
    \/ RunContinuously
    \/ StartupNotified
    \/ MonitorLoopTop
    \/ CheckCycle
    \/ MonitorWaitReturns
    \/ MainShutdown
    \/ ShutdownNotified
    \/ Cleanup

NextLife == ProgramStep \/ Signal

\* The event loop runs what is ready and the timeouts of wait_for expire.
SpecLife == InitLife /\ [][NextLife]_vars /\ WF_vars(ProgramStep)


\* The periodic loops from their start: the loop of V1 inside run_continuously,
\* and the two loop coroutines of V2 on a constructed monitor, each with a
\* configuration that passed validate.
InitLoops ==
    /\ DriverUnused
    /\ version \in {"v1", "v2"}
    /\ argv = {}
    /\ environ \in {e \in Environs : ~validate(Config(e))}
    /\ config = Config(environ)
    /\ main_pc = IF version = "v1" THEN "running" ELSE "constructed"
    /\ _shutdown_event = FALSE
    /\ monitor_pc = "top"
    /\ monitor_timeout = 0
    /\ summary_pc = IF version = "v2" THEN "top" ELSE "none"
    /\ summary_timeout = 0
    /\ cycle_result = "none"
    /\ notifier_result = NoSend
    /\ sessions = {}
    /\ closed = {}

MonitorStep ==
    \/ MonitorLoopTop
    \/ CheckCycle
    \/ MonitorWaitReturns

SummaryStep ==
    \/ SummaryLoopTop
    \/ SummaryWaitReturns

NextLoops == MonitorStep \/ SummaryStep \/ Signal

\* The event loop runs each task that is ready, and the timeouts of wait_for expire.
SpecLoops ==
    InitLoops /\ [][NextLoops]_vars /\ WF_vars(MonitorStep) /\ WF_vars(SummaryStep)


----------------------------------------------------------------------------
(* Notifier: delivery failures *)

\* C26: whatever the transport does (HTTP error, API error, exception), a
\* notifier call raises nothing and returns a boolean, true exactly when the
\* message was delivered; no check cycle lets an exception out to its loop and
\* main is not left by an exception after a notifier call.
C26_NotifierReturnsFalseNeverRaises ==
    notifier_result.what # "none" =>
        /\ ~notifier_result.raised
        /\ notifier_result.value \in BOOLEAN
        /\ notifier_result.value = (notifier_result.outcome = "ok")
        /\ cycle_result # "raised"
        /\ main_pc # "crashed"

\* The transport raised while the report of a cycle was sent: the call
\* returned false and the loop went on to wait for its interval.
C26_Witness ==
    /\ notifier_result = NotifierCall("report", "exception", FALSE, FALSE)
    /\ cycle_result = "ok"
    /\ main_pc = "running"
    /\ monitor_pc = "wait"


----------------------------------------------------------------------------
(* Configuration *)

\* The environment variable behind each attribute the claim names.
ConfiguredFrom ==
    [monitor_interval_minutes |-> "MONITOR_INTERVAL_MINUTES",
     summary_interval_minutes |-> "SUMMARY_INTERVAL_MINUTES",
     funding_rate_threshold |-> "FUNDING_RATE_THRESHOLD"]

\* C28: a Config built from the environment has the attributes
\* monitor_interval_minutes, summary_interval_minutes and
\* funding_rate_threshold, each with the value set in the environment (2, 30
\* and 0.01 for the environment of test_config), and these are the attributes
\* the V2 driver reads for its two loops.
C28_ConfigExposesIntervalsAndThreshold ==
    main_pc # "start" =>
        /\ \A a \in DOMAIN ConfiguredFrom :
              /\ a \in DOMAIN config
              /\ ConfiguredFrom[a] \in DOMAIN environ => config[a] = environ[ConfiguredFrom[a]]
        /\ StartupAttrs("v2") \subseteq DOMAIN config


\* The variable the check interval of a version is configured by.
CheckIntervalVar(v) ==
    IF v = "v1" THEN "QUERY_INTERVAL_MINUTES" ELSE "MONITOR_INTERVAL_MINUTES"

\* A credential is missing, the check interval is not positive, or (V2) the
\* summary interval is not positive.
InvalidConfiguration(env, v) ==
    \/ \E c \in Credentials : getenv(env, c, None) \in {None, ""}
    \/ CheckIntervalVar(v) \in DOMAIN env /\ env[CheckIntervalVar(v)] <= 0
    \/ v = "v2" /\ "SUMMARY_INTERVAL_MINUTES" \in DOMAIN env
                /\ env["SUMMARY_INTERVAL_MINUTES"] <= 0

\* C29: with an invalid configuration validation fails and main returns: the
\* program gets no further than the rejection, so no monitor is constructed
\* and no check cycle, summary flush or notification happens.
C29_InvalidConfigurationRejectedAtStartup ==
    InvalidConfiguration(environ, version) =>
        /\ main_pc \in {"start", "rejected"}
        /\ monitor_pc = "none"
        /\ notifier_result = NoSend


----------------------------------------------------------------------------
(* Shutdown *)

\* C21: in continuous operation a shutdown signal leads to the shutdown
\* notification being attempted first and the three clients being closed
\* after it: no client is closed before the attempt, and a run that has ended
\* after a signal has attempted the notification, whatever the attempt gave,
\* and has closed the two exchange clients and the notifier.
C21_ShutdownNotifiesThenReleases ==
    "--once" \notin argv =>
        /\ closed # {} => notifier_result.what = "shutdown"
        /\ (_shutdown_event /\ main_pc \in {"exited", "crashed"})
              => /\ notifier_result.what = "shutdown"
                 /\ closed = Clients
                 /\ sessions = {}


----------------------------------------------------------------------------
(* The periodic loops *)

MonitorWaiting == monitor_pc = "wait"

SummaryWaiting == summary_pc \in {"wait_interval", "wait_backoff"}

LoopsEnded == monitor_pc \in {"none", "done"} /\ summary_pc \in {"none", "done"}

\* C22: once the shutdown event is set, a loop that is waiting (for its
\* interval or for its error backoff) leaves the wait only by ending, never by
\* going on to another round, and every loop eventually ends.
C22_LoopsObserveShutdownAtWaitPoints ==
    /\ [][(MonitorWaiting /\ _shutdown_event /\ monitor_pc' # monitor_pc)
             => monitor_pc' = "done"]_vars
    /\ [][(SummaryWaiting /\ _shutdown_event /\ summary_pc' # summary_pc)
             => summary_pc' = "done"]_vars
    /\ _shutdown_event ~> LoopsEnded

\* Both loops of V2 ended out of a wait: the check loop out of a wait of 60
\* seconds, the summary loop out of one of 300 seconds.
C22_Witness ==
    /\ version = "v2"
    /\ _shutdown_event
    /\ monitor_pc = "done"
    /\ monitor_timeout = 60
    /\ summary_pc = "done"
    /\ summary_timeout = 300


\* C23: an error in a check cycle, or in a round of a loop, ends no loop: a
\* loop ends only when the shutdown event is set, after every check cycle the
\* check loop is waiting for its next round (unless the event is set), and
\* after a failed cycle a later cycle is started unless shutdown is requested.
C23_ErrorsNeverEndALoop ==
    /\ [][(monitor_pc # "done" /\ monitor_pc' = "done") => _shutdown_event]_vars
    /\ [][(summary_pc # "done" /\ summary_pc' = "done") => _shutdown_event]_vars
    /\ [][(monitor_pc = "check" /\ monitor_pc' # "check")
             => (monitor_pc' = "wait" \/ (_shutdown_event /\ monitor_pc' = "done"))]_vars
    /\ [][(summary_pc = "top" /\ summary_pc' # "top")
             => (SummaryWaiting' \/ (_shutdown_event /\ summary_pc' = "done"))]_vars
    /\ (cycle_result = "failed" /\ MonitorWaiting) ~> (monitor_pc = "check" \/ _shutdown_event)

\* With no shutdown requested the check loop has started a cycle after a
\* failed one, and the summary loop waits after the error of its round.
C23_Witness ==
    /\ ~_shutdown_event
    /\ cycle_result = "failed"
    /\ monitor_pc = "check"
    /\ summary_pc = "wait_backoff"

\* The timeout of the wait a round of the check loop ends in: 60 seconds when
\* an exception reached the loop, else the configured interval.
RoundWait ==
    IF getattr(config, IntervalAttr(version)).raised THEN {60}
    ELSE {60, config[IntervalAttr(version)] * 60}

SummarySent == notifier_result.what = "summary"

\* C25: while no shutdown is requested the V2 summary loop waits for the
\* summary interval in every round, and a summary report is generated and
\* sent infinitely often.
C25_SummaryFlushedEveryInterval ==
    /\ [][(summary_pc = "top" /\ summary_pc' # "top" /\ ~_shutdown_event)
             => summary_pc' = "wait_interval"]_vars
    /\ version = "v2" => ([]<>SummarySent \/ <>_shutdown_event)

----------------------------------------------------------------------------
(* FRMonitorV2: what one execution of the check cycle records *)

\* A step in which check_and_send_alert is left: by its early return, at its
\* end, or by an exception passing through its finally clause.
CycleLeft == pc \notin {"idle", "cancelled"} /\ pc' \in {"idle", "cancelled"}

\* The exception that can interrupt the cycle is thrown at one of its awaits.
CycleInterrupted == CycleLeft /\ (pc = "error_send" \/ pc' = "cancelled")

\* C31: every execution of the check cycle appends exactly one check result:
\* a successful one when no pair was matched, a successful one when the
\* evaluation completed, a failed one with the per-symbol statistics untouched
\* when an exception interrupted the cycle; no other step of the check loop
\* records a check.
C31_OneCheckResultPerCycle ==
    [][/\ CycleLeft =>
            /\ statistics_collector'.check_results =
                  Append(statistics_collector.check_results, [success |-> ~CycleInterrupted])
            /\ CycleInterrupted =>
                  statistics_collector'.symbol_stats = statistics_collector.symbol_stats
       /\ (~CycleLeft /\ ~WindowEnds) =>
            statistics_collector'.check_results = statistics_collector.check_results]_vars

\* A cycle that matched no pair and a cycle interrupted after it had matched
\* one have each left their check result.
C31_Witness ==
    /\ pc = "cancelled"
    /\ arbitrage_pairs # <<>>
    /\ statistics_collector.check_results = <<[success |-> TRUE], [success |-> FALSE]>>
    /\ statistics_collector.no_arbitrage_count = 1

----------------------------------------------------------------------------
(* Pair matcher: several positions of one instrument on one exchange *)

\* The list without the positions that a later position of the same exchange
\* and instrument follows.
RECURSIVE LastOnly(_)
LastOnly(positions) ==
    IF positions = <<>> THEN <<>>
    ELSE IF HoldsSymbol(Tail(positions), Head(positions).symbol)
         THEN LastOnly(Tail(positions))
         ELSE <<Head(positions)>> \o LastOnly(Tail(positions))

PairSet(pairs) == {pairs[i] : i \in DOMAIN pairs}

\* C32: of several positions an exchange lists for one instrument the matcher
\* uses the last: the pairs are those it finds when every earlier duplicate is
\* taken out of the lists, and the sizes of a pair are those of the last
\* position each exchange listed for the instrument.
C32_LastDuplicateWins ==
    pc = "matched" =>
        /\ PairSet(arbitrage_pairs) =
              PairSet(_find_arbitrage_pairs(LastOnly(binance_positions), LastOnly(bybit_positions)))
        /\ \A i \in DOMAIN arbitrage_pairs :
              LET p == arbitrage_pairs[i]
              IN /\ p.long_size = EffectivePosition(PositionsOf(p.long_exchange), p.symbol).size
                 /\ p.short_size = EffectivePosition(PositionsOf(p.short_exchange), p.symbol).size
                 /\ LegIsLong(p.long_exchange,
                              EffectivePosition(PositionsOf(p.long_exchange), p.symbol))
                 /\ LegIsShort(p.short_exchange,
                               EffectivePosition(PositionsOf(p.short_exchange), p.symbol))

\* Binance listed an instrument twice with opposite sides and different sizes,
\* and the instrument was paired with the second of them as the long leg.
C32_Witness ==
    /\ pc = "matched"
    /\ Len(binance_positions) = 2
    /\ binance_positions[1].symbol = binance_positions[2].symbol
    /\ binance_positions[1].side = "SHORT"
    /\ binance_positions[2].side = "LONG"
    /\ binance_positions[1].size # binance_positions[2].size
    /\ \E i \in DOMAIN arbitrage_pairs :
          /\ arbitrage_pairs[i].symbol = binance_positions[2].symbol
          /\ arbitrage_pairs[i].long_exchange = "binance"
          /\ arbitrage_pairs[i].long_size = binance_positions[2].size

----------------------------------------------------------------------------
(* FRMonitorV2: when the check cycle sends an alert notification *)

\* A step in which the cycle hands an alert report to the notifier.
AlertSent == pc # "alert_send" /\ pc' = "alert_send"

\* The instruments whose matched pair has, in the rates the cycle has just
\* obtained, a spread of at most the threshold.
TriggeredNow == {symbol \in Symbols : TriggeredInEndingCycle(symbol)}

\* C33: the cycle sends an alert notification exactly when the evaluation of
\* its rates finds a triggered pair: never from a cycle without a pair, never
\* when no pair triggered; and the report sent has one section for each
\* triggered pair and no other.
C33_AlertSentIffPairTriggered ==
    [][/\ AlertSent => (pc = "rates" /\ arbitrage_pairs # <<>>)
       /\ (pc = "rates" /\ pc' \in {"alert_send", "idle"}) =>
             /\ AlertSent <=> TriggeredNow # {}
             /\ AlertSent =>
                   /\ {alert_report'[i].symbol : i \in DOMAIN alert_report'} = TriggeredNow
                   /\ Len(alert_report') = Cardinality(TriggeredNow)
                   /\ \A i \in DOMAIN alert_report' :
                         alert_report'[i].rate_diff <= funding_rate_threshold'
             /\ ~AlertSent => alert_report' = <<>>
       /\ (pc = "detect" /\ arbitrage_pairs' = <<>>) => (~AlertSent /\ alert_report' = <<>>)]_vars

\* An alert report is with the notifier: of the two matched pairs one triggered
\* and is in the report, the other did not and is not.
C33_Witness ==
    /\ pc = "alert_send"
    /\ Len(arbitrage_pairs) = 2
    /\ Len(alert_report) = 1
    /\ Len(alert_pairs) = 1
    /\ alert_report[1].symbol = alert_pairs[1].symbol

----------------------------------------------------------------------------
(* FRMonitorV2: the summary flush interleaved with a check cycle *)

\* C34: what a delivered summary's reset discards has been reported: at the
\* reset that follows a delivered report, the checks, the failed checks and the
\* alerts held by the aggregator are those the report was built from, also
\* when a check cycle recorded its result while the delivery was awaited.
C34_RecordNotWipedUnreported ==
    [][(WindowEnds /\ summary_delivered')
          => /\ summary_report.total_checks = get_total_checks(statistics_collector)
             /\ summary_report.failed_checks = get_failed_checks(statistics_collector)
             /\ summary_report.total_alerts = get_total_alerts(statistics_collector)]_vars

----------------------------------------------------------------------------
(* FRMonitorV2: alerts and checks of an instrument at the suspension points *)

\* C35: in every state in which the check cycle or the summary flush can be
\* suspended, no instrument has more alerts than checks, in the aggregator and
\* in the report built from it: the alert rate is at most 100%.
C35_AlertsNeverExceedChecks ==
    /\ \A symbol \in DOMAIN statistics_collector.symbol_stats :
          statistics_collector.symbol_stats[symbol].alert_count
             <= statistics_collector.symbol_stats[symbol].check_count
    /\ \A symbol \in DOMAIN summary_report.details :
          /\ summary_report.details[symbol].alert_count <= summary_report.details[symbol].check_count
          /\ summary_report.details[symbol].alert_rate.num
                <= 100 * summary_report.details[symbol].alert_rate.den

\* An instrument triggered in both cycles of the window, and the summary flush
\* holds the report built from that.
C35_Witness ==
    /\ spc = "sending"
    /\ \E symbol \in DOMAIN statistics_collector.symbol_stats :
          /\ statistics_collector.symbol_stats[symbol].alert_count = 2
          /\ statistics_collector.symbol_stats[symbol].check_count = 2
          /\ symbol \in DOMAIN summary_report.details
          /\ summary_report.details[symbol].alert_count = 2

----------------------------------------------------------------------------
(* Periodic loops: no new round after the shutdown signal *)

\* A step in which the check loop passes its while test and enters a cycle.
CycleBegins == monitor_pc # "check" /\ monitor_pc' = "check"

\* A step in which the summary loop leaves the wait for its interval by
\* TimeoutError and calls send_summary_report.
FlushBegins == summary_pc = "wait_interval" /\ summary_pc' = "top"

\* C36: once the shutdown event is set no loop begins a check cycle or a
\* summary flush; the cycle in progress when the signal arrives runs to its end,
\* and the event stays set.
C36_NoNewRoundAfterShutdown ==
    [][_shutdown_event =>
          /\ ~CycleBegins
          /\ ~FlushBegins
          /\ _shutdown_event'
          /\ monitor_pc = "check" => monitor_pc' \in {"check", "wait", "done"}]_vars

\* The signal arrived while the second cycle of the V1 loop was in progress.
C36_Witness ==
    /\ _shutdown_event
    /\ version = "v1"
    /\ monitor_pc = "check"
    /\ cycle_result # "none"

----------------------------------------------------------------------------
(* FRMonitorV2: the alert send and what the cycle records *)

\* A step in which the notifier returns to the cycle that handed it the alert
\* report (the cycle is not cancelled at that await).
AlertSendReturns == pc = "alert_send" /\ pc' \notin {"alert_send", "cancelled"}

\* C37: when the send of the alert report returns, delivered or not, the cycle
\* ends with its success flag set, one successful check recorded, and one alert
\* added to the alert_count of every pair of the alert set and of no other.
C37_AlertCountedWhateverTheSend ==
    [][AlertSendReturns =>
          /\ pc' = "idle"
          /\ success'
          /\ statistics_collector'.check_results =
                Append(statistics_collector.check_results, [success |-> TRUE])
          /\ \A symbol \in Symbols :
                AlertCount(statistics_collector', symbol) =
                   AlertCount(statistics_collector, symbol)
                      + (IF DictHas(alert_pairs, symbol) THEN 1 ELSE 0)]_vars

\* The alert report was not delivered, and the cycle has ended with its success
\* flag set and the alert of its triggered pair counted.
C37_Witness ==
    /\ pc = "idle"
    /\ alert_pairs # <<>>
    /\ ~alert_delivered
    /\ success
    /\ statistics_collector.check_results = <<[success |-> TRUE]>>
    /\ \A i \in DOMAIN alert_pairs :
          AlertCount(statistics_collector, alert_pairs[i].symbol) = 1

----------------------------------------------------------------------------
(* Statistics aggregator: calls that leave the per-symbol statistics alone *)

\* C38: a record_check_result call with success false, with no pair, or with
\* no rate data leaves symbol_stats as it was (no entry created, no entry
\* changed); it appends the check result and counts a call without pairs.
C38_NoSymbolUpdateWithoutSuccessPairsAndRates ==
    [][(/\ MethodCalled("record_check_result")
        /\ \/ ~last_call'.success
           \/ last_call'.pairs = <<>>
           \/ DOMAIN last_call'.funding = {})
          => /\ statistics_collector'.symbol_stats = statistics_collector.symbol_stats
             /\ statistics_collector'.check_results =
                   Append(statistics_collector.check_results, [success |-> last_call'.success])
             /\ statistics_collector'.no_arbitrage_count =
                   statistics_collector.no_arbitrage_count
                      + (IF last_call'.pairs = <<>> THEN 1 ELSE 0)]_vars

\* A failed check with two pairs and rates for both was recorded after a
\* successful one: BTCUSDT keeps its one check and ETHUSDT has no entry.
C38_Witness ==
    /\ last_call.op = "record_check_result"
    /\ ~last_call.success
    /\ Len(last_call.pairs) = 2
    /\ DOMAIN last_call.funding = Symbols
    /\ get_total_checks(statistics_collector) = 2
    /\ DOMAIN statistics_collector.symbol_stats = {"BTCUSDT"}
    /\ statistics_collector.symbol_stats["BTCUSDT"].check_count = 1

----------------------------------------------------------------------------
(* Resource cleanup *)

\* C39: _cleanup closes the two exchange clients and the notifier on every
\* path: when it has run, all three have been closed and no session is left
\* open, also when the close of one of them failed.
C39_CleanupClosesEveryClient ==
    [][(main_pc = "cleanup" /\ main_pc' # "cleanup")
          => (closed' = Clients /\ sessions' = {})]_vars

=============================================================================
